---- MODULE Spec2Model ----
(***************************************************************************)
(* Mars Rover.  The command-execution engine (executeCommands) is a state   *)
(* machine over its loop, one invocation per rover, and also a function    *)
(* (ExecuteCommands).  The parser (parseInput) and the formatter           *)
(* (formatOutput) are functions on strings, and the page's                 *)
(* handleRunSimulation is an action that composes the three.               *)
(***************************************************************************)
EXTENDS Integers, Sequences, FiniteSets, TLC

\* ------------------------------------------------------------------ bounds

\* Largest plateau coordinate (maxX, maxY range over 0..MaxCoord).
MaxCoord == 2
\* Longest command string of a single invocation.
MaxLen == 4
\* Number of rovers whose invocations are interleaved, and their bounds.
NumRovers == 2
MaxCoordMulti == 1
MaxLenMulti == 2
\* Most lines of an input text, and most runs of the simulation on one text.
MaxLines == 5
MaxRuns == 2
\* Parser inputs: most lines of a text of arbitrary lines, and most rover
\* pairs of a text laid out as plateau line, position line, commands line, ...
MaxFreeLines == 2
MaxPairs == 2
\* Longest commands line typed character by character.
MaxCommandsLen == 3
\* Most whitespace edits typed into a text after its first run.
MaxEdits == 1
\* Most states of a list handed to formatOutput.
MaxStates == 2
\* Most fields of a plateau line that breaks the rules of its line.
MaxFields == 3
\* Most repetitions of the pattern of mixed commands.
MaxRepetitions == 8
\* Longest string of arbitrary characters given to executeCommands.
MaxLenAny == 3
\* Farthest a start state given to executeCommands lies off the plateau.
Margin == 2

\* ------------------------------------------------------------------ state

VARIABLES
    plateau,    \* the Plateau {maxX, maxY} passed to every invocation
    rovers,     \* the rovers of the input: sequence of {start, commands}
    pc,         \* per invocation: "call", "loop", "done" or "threw"
    x,          \* per invocation: local x
    y,          \* per invocation: local y
    dirNum,     \* per invocation: local dirNum
    i,          \* per invocation: loop index i (0-based, as in the code)
    result,     \* per invocation: the returned RoverState, NoResult before
    input,      \* page: the text of the input box
    output,     \* page: the output text ('' is <<>>)
    error,      \* page: the error message ('' is <<>>)
    lastIndex,  \* parser: VALID_COMMANDS.lastIndex
    runs,       \* page: completed runs of handleRunSimulation on this input
    parsed,     \* page: what the last parseInput(input) returned or threw
    edits       \* page: changes typed into the box since the first run

engineVars == <<plateau, rovers, pc, x, y, dirNum, i, result>>
pageVars == <<input, output, error, lastIndex, runs, parsed, edits>>
vars == <<engineVars, pageVars>>

\* ------------------------------------------------------- the direction model

Direction == {"N", "E", "S", "W"}

\* const DIRECTIONS = ['N', 'E', 'S', 'W'], indexed from 0
DIRECTIONS == (0 :> "N") @@ (1 :> "E") @@ (2 :> "S") @@ (3 :> "W")

\* const DIR_TO_NUM = { N: 0, E: 1, S: 2, W: 3 }
DIR_TO_NUM == [N |-> 0, E |-> 1, S |-> 2, W |-> 3]

\* Variant: the displacement table with North and South exchanged.
DELTASFlipped == (0 :> <<0, -1>>) @@ (1 :> <<1, 0>>) @@ (2 :> <<0, 1>>) @@ (3 :> <<-1, 0>>)

\* const DELTAS = [[0,1],[1,0],[0,-1],[-1,0]], indexed from 0, each <<dx, dy>>
DELTAS == (0 :> <<0, 1>>) @@ (1 :> <<1, 0>>) @@ (2 :> <<0, -1>>) @@ (3 :> <<-1, 0>>)

\* JavaScript's remainder a % n: the sign of the dividend is kept.
JsRem(a, n) == IF a >= 0 THEN a % n ELSE -((-a) % n)

\* Variant: the left turn written as (dirNum - 1) % 4, negative below North.
TurnLeftNumNegative(d) == JsRem(d - 1, 4)

\* Variant: the left turn increments, as the right turn does.
TurnLeftNumAsRight(d) == (d + 1) % 4

\* dirNum = (dirNum + 3) % 4
TurnLeftNum(d) == (d + 3) % 4

\* Variant: the right turn decrements, as the left turn does.
TurnRightNumAsLeft(d) == (d + 3) % 4

\* dirNum = (dirNum + 1) % 4
TurnRightNum(d) == (d + 1) % 4

\* Variant: the upper bounds are exclusive, newX < maxX and newY < maxY.
InBoundsExclusive(newX, newY, p) ==
    newX >= 0 /\ newX < p.maxX /\ newY >= 0 /\ newY < p.maxY

\* Variant: the bounds check without its upper bounds.
InBoundsNoUpper(newX, newY, p) == newX >= 0 /\ newY >= 0

\* Variant: the bounds check without its lower bounds.
InBoundsNoLower(newX, newY, p) == newX <= p.maxX /\ newY <= p.maxY

\* newX >= 0 && newX <= plateau.maxX && newY >= 0 && newY <= plateau.maxY
InBounds(newX, newY, p) ==
    newX >= 0 /\ newX <= p.maxX /\ newY >= 0 /\ newY <= p.maxY

\* The value DIRECTIONS[dirNum] of the return statement; an index outside the
\* array reads undefined.
DirectionOf(d) == IF d \in DOMAIN DIRECTIONS THEN DIRECTIONS[d] ELSE "undefined"

RoverState(px, py, d) == [position |-> [x |-> px, y |-> py], direction |-> d]

NoResult == [position |-> [x |-> -1, y |-> -1], direction |-> "none"]

\* ------------------------------------------------ executeCommands as a function

\* Variant: the cases 'L' and 'R' of the loop exchanged.
LoopBodyTurnsSwapped(loc, cmd, p) ==
    IF cmd = "L" THEN [loc EXCEPT !.dirNum = TurnRightNum(loc.dirNum)]
    ELSE IF cmd = "R" THEN [loc EXCEPT !.dirNum = TurnLeftNum(loc.dirNum)]
    ELSE IF cmd = "M" THEN
        LET newX == loc.x + DELTAS[loc.dirNum][1]
            newY == loc.y + DELTAS[loc.dirNum][2]
        IN  IF InBounds(newX, newY, p)
            THEN [loc EXCEPT !.x = newX, !.y = newY]
            ELSE loc
    ELSE loc

\* One iteration of the for loop on the locals loc = [x, y, dirNum].
LoopBody(loc, cmd, p) ==
    IF cmd = "L" THEN [loc EXCEPT !.dirNum = TurnLeftNum(loc.dirNum)]
    ELSE IF cmd = "R" THEN [loc EXCEPT !.dirNum = TurnRightNum(loc.dirNum)]
    ELSE IF cmd = "M" THEN
        LET newX == loc.x + DELTAS[loc.dirNum][1]
            newY == loc.y + DELTAS[loc.dirNum][2]
        IN  IF InBounds(newX, newY, p)
            THEN [loc EXCEPT !.x = newX, !.y = newY]
            ELSE loc
    ELSE loc

RECURSIVE ForLoop(_, _, _, _)
\* for (let i = k; i < commands.length; i++) { ... }
ForLoop(loc, commands, k, p) ==
    IF k < Len(commands)
    THEN ForLoop(LoopBody(loc, commands[k + 1], p), commands, k + 1, p)
    ELSE loc

\* Variant: the loop starts at the second command, for (let i = 1; ...).
ExecuteCommandsFromSecond(start, commands, p) ==
    LET seed == [x |-> start.position.x, y |-> start.position.y,
                 dirNum |-> DIR_TO_NUM[start.direction]]
        fin == ForLoop(seed, commands, 1, p)
    IN  RoverState(fin.x, fin.y, DirectionOf(fin.dirNum))

\* executeCommands(start, commands, plateau)
ExecuteCommands(start, commands, p) ==
    LET seed == [x |-> start.position.x, y |-> start.position.y,
                 dirNum |-> DIR_TO_NUM[start.direction]]
        fin == ForLoop(seed, commands, 0, p)
    IN  RoverState(fin.x, fin.y, DirectionOf(fin.dirNum))

\* ------------------------------------------------------------------ text
\* A string is a sequence of one-character strings.

\* The characters String.prototype.trim and the regular expression \s strip
\* (those of them the inputs use).
IsWhitespace(c) == c \in {" ", "\t", "\n", "\r"}

RECURSIVE TrimStart(_)
TrimStart(s) == IF s # <<>> /\ IsWhitespace(Head(s)) THEN TrimStart(Tail(s)) ELSE s

RECURSIVE TrimEnd(_)
TrimEnd(s) ==
    IF s # <<>> /\ IsWhitespace(s[Len(s)]) THEN TrimEnd(SubSeq(s, 1, Len(s) - 1)) ELSE s

\* s.trim()
Trim(s) == TrimEnd(TrimStart(s))

\* The first index from k on at which s holds a character of set, or
\* Len(s) + 1 when there is none.
RECURSIVE IndexIn(_, _, _)
IndexIn(s, k, set) ==
    IF k > Len(s) \/ s[k] \in set THEN k ELSE IndexIn(s, k + 1, set)

\* The first index from k on at which s holds a character outside set.
RECURSIVE IndexNotIn(_, _, _)
IndexNotIn(s, k, set) ==
    IF k > Len(s) \/ s[k] \notin set THEN k ELSE IndexNotIn(s, k + 1, set)

\* s.split('\n')
RECURSIVE SplitLines(_)
SplitLines(s) ==
    LET k == IndexIn(s, 1, {"\n"})
    IN  IF k > Len(s) THEN <<s>>
        ELSE <<SubSeq(s, 1, k - 1)>> \o SplitLines(SubSeq(s, k + 1, Len(s)))

\* Variant: s.split(' '), every single space separates two fields.
RECURSIVE SplitSpaces(_)
SplitSpaces(s) ==
    LET k == IndexIn(s, 1, {" "})
    IN  IF k > Len(s) THEN <<s>>
        ELSE <<SubSeq(s, 1, k - 1)>> \o SplitSpaces(SubSeq(s, k + 1, Len(s)))

\* s.split(/\s+/)
RECURSIVE SplitWhitespace(_)
SplitWhitespace(s) ==
    LET k == IndexIn(s, 1, {" ", "\t", "\n", "\r"})
        e == IndexNotIn(s, k, {" ", "\t", "\n", "\r"})
    IN  IF k > Len(s) THEN <<s>>
        ELSE <<SubSeq(s, 1, k - 1)>> \o SplitWhitespace(SubSeq(s, e, Len(s)))

UpperOf ==
    [a |-> "A", b |-> "B", c |-> "C", d |-> "D", e |-> "E", f |-> "F", g |-> "G",
     h |-> "H", i |-> "I", j |-> "J", k |-> "K", l |-> "L", m |-> "M", n |-> "N",
     o |-> "O", p |-> "P", q |-> "Q", r |-> "R", s |-> "S", t |-> "T", u |-> "U",
     v |-> "V", w |-> "W", x |-> "X", y |-> "Y", z |-> "Z"]

\* s.toUpperCase()
ToUpperCase(s) ==
    [k \in 1..Len(s) |-> IF s[k] \in DOMAIN UpperOf THEN UpperOf[s[k]] ELSE s[k]]

DigitChars == <<"0", "1", "2", "3", "4", "5", "6", "7", "8", "9">>

Digits == {DigitChars[k] : k \in 1..Len(DigitChars)}

\* The value of the decimal digit c.
DigitValue(c) == (CHOOSE k \in 1..Len(DigitChars) : DigitChars[k] = c) - 1

\* The value of the decimal digits s, 0 for no digits.
RECURSIVE DigitsValue(_)
DigitsValue(s) ==
    IF s = <<>> THEN 0
    ELSE 10 * DigitsValue(SubSeq(s, 1, Len(s) - 1)) + DigitValue(s[Len(s)])

RECURSIVE Pow10(_)
Pow10(n) == IF n = 0 THEN 1 ELSE 10 * Pow10(n - 1)

NaN == [kind |-> "NaN", value |-> 0]
Infinite == [kind |-> "Infinity", value |-> 0]
Integral(n) == [kind |-> "integer", value |-> n]
Fractional == [kind |-> "fraction", value |-> 0]

\* The number mantissa * 10^shift when it is an integer.
Scaled(mantissa, shift) ==
    IF shift >= 0 THEN Integral(mantissa * Pow10(shift))
    ELSE IF mantissa % Pow10(-shift) = 0 THEN Integral(mantissa \div Pow10(-shift))
    ELSE Fractional

\* The literal s with its integer digits, fraction digits and exponent part
\* told apart: expStart is where the exponent's digits start (0 when s has no
\* exponent part at fracEnd) and expEnd where they end.
DecimalOfParts(s, intDigits, fracDigits, fracEnd, expStart, expEnd) ==
    IF \/ Len(intDigits) + Len(fracDigits) = 0
       \/ expStart > 0 /\ expEnd = expStart
       \/ expEnd <= Len(s)
    THEN NaN
    ELSE IF expStart = 0 THEN Scaled(DigitsValue(intDigits \o fracDigits), -Len(fracDigits))
    ELSE IF s[expStart - 1] = "-"
    THEN Scaled(DigitsValue(intDigits \o fracDigits),
                -DigitsValue(SubSeq(s, expStart, expEnd - 1)) - Len(fracDigits))
    ELSE Scaled(DigitsValue(intDigits \o fracDigits),
                DigitsValue(SubSeq(s, expStart, expEnd - 1)) - Len(fracDigits))

\* The literal s whose fraction digits are s[fracStart .. fracEnd - 1].
DecimalExponent(s, intEnd, fracStart, fracEnd, expStart) ==
    DecimalOfParts(s, SubSeq(s, 1, intEnd - 1), SubSeq(s, fracStart, fracEnd - 1), fracEnd,
                   expStart,
                   IF expStart > 0 THEN IndexNotIn(s, expStart, Digits) ELSE fracEnd)

DecimalFraction(s, intEnd, fracStart, fracEnd) ==
    DecimalExponent(s, intEnd, fracStart, fracEnd,
                    IF fracEnd <= Len(s) /\ s[fracEnd] \in {"e", "E"}
                    THEN IF fracEnd + 1 <= Len(s) /\ s[fracEnd + 1] \in {"+", "-"}
                         THEN fracEnd + 2
                         ELSE fracEnd + 1
                    ELSE 0)

DecimalInteger(s, intEnd, fracStart) ==
    DecimalFraction(s, intEnd, fracStart, IndexNotIn(s, fracStart, Digits))

DecimalDot(s, intEnd) ==
    DecimalInteger(s, intEnd, IF intEnd <= Len(s) /\ s[intEnd] = "." THEN intEnd + 1 ELSE intEnd)

\* The number of an unsigned decimal literal: digits [. digits] [e [+-] digits]
\* or . digits [e [+-] digits]; NaN when s is no such literal.
UnsignedDecimal(s) == DecimalDot(s, IndexNotIn(s, 1, Digits))

InfinityLiteral == <<"I", "n", "f", "i", "n", "i", "t", "y">>

HexLower == DigitChars \o <<"a", "b", "c", "d", "e", "f">>
HexUpper == DigitChars \o <<"A", "B", "C", "D", "E", "F">>

HexDigits == {HexLower[k] : k \in 1..Len(HexLower)} \cup {HexUpper[k] : k \in 1..Len(HexUpper)}

\* The value of the hexadecimal digit c.
HexDigitValue(c) ==
    (CHOOSE k \in 1..Len(HexLower) : HexLower[k] = c \/ HexUpper[k] = c) - 1

\* The value of the digits s in the given radix.
RECURSIVE RadixValue(_, _)
RadixValue(s, radix) ==
    IF s = <<>> THEN 0
    ELSE radix * RadixValue(SubSeq(s, 1, Len(s) - 1), radix) + HexDigitValue(s[Len(s)])

\* The number of a 0x, 0o or 0b literal, NaN when s is none.
RadixLiteral(s) ==
    LET radix == IF s[2] \in {"x", "X"} THEN 16 ELSE IF s[2] \in {"o", "O"} THEN 8 ELSE 2
        digits == SubSeq(s, 3, Len(s))
    IN  IF \A k \in 1..Len(digits) :
               digits[k] \in HexDigits /\ HexDigitValue(digits[k]) < radix
        THEN Integral(RadixValue(digits, radix))
        ELSE NaN

IsRadixLiteral(s) ==
    Len(s) >= 3 /\ s[1] = "0" /\ s[2] \in {"x", "X", "o", "O", "b", "B"}

\* The number of the literal whose sign is sign and whose unsigned part has
\* the number magnitude.
Signed(sign, magnitude) ==
    IF sign = "-" /\ magnitude.kind = "integer" THEN Integral(-magnitude.value)
    ELSE magnitude

UnsignedNumber(body) ==
    IF body = InfinityLiteral THEN Infinite ELSE UnsignedDecimal(body)

\* Number(value) for a value without surrounding whitespace (the fields of a
\* trimmed line split on whitespace have none). -0 is the integer 0.
Number(value) ==
    IF value = <<>> THEN Integral(0)
    ELSE IF IsRadixLiteral(value) THEN RadixLiteral(value)
    ELSE IF Head(value) \in {"+", "-"} THEN Signed(Head(value), UnsignedNumber(Tail(value)))
    ELSE UnsignedNumber(value)

\* String(n) of an integer, as a template literal renders it.
RECURSIVE NaturalToString(_)
NaturalToString(n) ==
    LET digit == DigitChars[(n % 10) + 1]
    IN  IF n < 10 THEN <<digit>> ELSE Append(NaturalToString(n \div 10), digit)

NumberToString(n) == IF n < 0 THEN <<"-">> \o NaturalToString(-n) ELSE NaturalToString(n)

\* lines.join(sep)
RECURSIVE Join(_, _)
Join(lines, sep) ==
    IF lines = <<>> THEN <<>>
    ELSE IF Len(lines) = 1 THEN lines[1]
    ELSE lines[1] \o <<sep>> \o Join(Tail(lines), sep)

\* ------------------------------------------------------------------ parser

Thrown(message) == [ok |-> FALSE, error |-> message]
Returned(v) == [ok |-> TRUE, value |-> v]

\* Variant: only NaN is thrown out, if (isNaN(num)).
CheckIntegerNotNaN(num, value, fieldName) ==
    IF num.kind = "NaN"
    THEN Thrown(<<"Invalid ${fieldName}: \"${value}\" is not a valid integer",
                  fieldName, value>>)
    ELSE Returned(num.value)

\* if (!Number.isInteger(num) || isNaN(num)) throw ...; return num
CheckInteger(num, value, fieldName) ==
    IF num.kind # "integer"
    THEN Thrown(<<"Invalid ${fieldName}: \"${value}\" is not a valid integer",
                  fieldName, value>>)
    ELSE Returned(num.value)

\* parseInteger(value, fieldName)
ParseInteger(value, fieldName) == CheckInteger(Number(value), value, fieldName)

\* Variant: a plateau needs positive coordinates, maxX <= 0 || maxY <= 0.
PlateauOfFieldsPositive(maxX, maxY) ==
    IF ~maxX.ok THEN maxX
    ELSE IF ~maxY.ok THEN maxY
    ELSE IF maxX.value <= 0 \/ maxY.value <= 0
    THEN Thrown(<<"Plateau coordinates must be non-negative">>)
    ELSE Returned([maxX |-> maxX.value, maxY |-> maxY.value])

\* parsePlateau once both fields are parsed: maxX's error comes first.
PlateauOfFields(maxX, maxY) ==
    IF ~maxX.ok THEN maxX
    ELSE IF ~maxY.ok THEN maxY
    ELSE IF maxX.value < 0 \/ maxY.value < 0
    THEN Thrown(<<"Plateau coordinates must be non-negative">>)
    ELSE Returned([maxX |-> maxX.value, maxY |-> maxY.value])

PlateauOfParts(line, parts) ==
    IF Len(parts) # 2
    THEN Thrown(<<"Invalid plateau line: expected \"maxX maxY\", got \"${line}\"", line>>)
    ELSE PlateauOfFields(ParseInteger(parts[1], <<"plateau maxX">>),
                         ParseInteger(parts[2], <<"plateau maxY">>))

\* parsePlateau(line)
ParsePlateau(line) == PlateauOfParts(line, SplitWhitespace(line))

\* const VALID_DIRECTIONS = new Set(['N', 'E', 'S', 'W'])
VALID_DIRECTIONS == {<<"N">>, <<"E">>, <<"S">>, <<"W">>}

\* Variant: the upper bounds are exclusive, x >= plateau.maxX and
\* y >= plateau.maxY are outside.
PositionOfFieldsExclusive(px, py, direction, p) ==
    IF ~px.ok THEN px
    ELSE IF ~py.ok THEN py
    ELSE IF direction \notin VALID_DIRECTIONS
    THEN Thrown(<<"Invalid direction \"${direction}\": must be one of N, E, S, W",
                  direction>>)
    ELSE IF px.value < 0 \/ px.value >= p.maxX \/ py.value < 0 \/ py.value >= p.maxY
    THEN Thrown(<<"Starting position (${x}, ${y}) is outside plateau bounds (0-${plateau.maxX}, 0-${plateau.maxY})",
                  NumberToString(px.value), NumberToString(py.value),
                  NumberToString(p.maxX), NumberToString(p.maxY)>>)
    ELSE Returned(RoverState(px.value, py.value, direction[1]))

\* Variant: the start position is not checked against the plateau.
PositionOfFieldsUnbounded(px, py, direction, p) ==
    IF ~px.ok THEN px
    ELSE IF ~py.ok THEN py
    ELSE IF direction \notin VALID_DIRECTIONS
    THEN Thrown(<<"Invalid direction \"${direction}\": must be one of N, E, S, W",
                  direction>>)
    ELSE Returned(RoverState(px.value, py.value, direction[1]))

\* Variant: the plateau bounds are checked before the direction letter.
PositionOfFieldsBoundsFirst(px, py, direction, p) ==
    IF ~px.ok THEN px
    ELSE IF ~py.ok THEN py
    ELSE IF px.value < 0 \/ px.value > p.maxX \/ py.value < 0 \/ py.value > p.maxY
    THEN Thrown(<<"Starting position (${x}, ${y}) is outside plateau bounds (0-${plateau.maxX}, 0-${plateau.maxY})",
                  NumberToString(px.value), NumberToString(py.value),
                  NumberToString(p.maxX), NumberToString(p.maxY)>>)
    ELSE IF direction \notin VALID_DIRECTIONS
    THEN Thrown(<<"Invalid direction \"${direction}\": must be one of N, E, S, W",
                  direction>>)
    ELSE Returned(RoverState(px.value, py.value, direction[1]))

\* parsePosition once its fields are parsed: x's error, then y's, then the
\* direction letter, then the plateau bounds.
PositionOfFields(px, py, direction, p) ==
    IF ~px.ok THEN px
    ELSE IF ~py.ok THEN py
    ELSE IF direction \notin VALID_DIRECTIONS
    THEN Thrown(<<"Invalid direction \"${direction}\": must be one of N, E, S, W",
                  direction>>)
    ELSE IF px.value < 0 \/ px.value > p.maxX \/ py.value < 0 \/ py.value > p.maxY
    THEN Thrown(<<"Starting position (${x}, ${y}) is outside plateau bounds (0-${plateau.maxX}, 0-${plateau.maxY})",
                  NumberToString(px.value), NumberToString(py.value),
                  NumberToString(p.maxX), NumberToString(p.maxY)>>)
    ELSE Returned(RoverState(px.value, py.value, direction[1]))

\* Variant: the direction is looked up as typed, without toUpperCase.
PositionOfPartsCaseSensitive(line, parts, p) ==
    IF Len(parts) # 3
    THEN Thrown(<<"Invalid position line: expected \"x y D\", got \"${line}\"", line>>)
    ELSE PositionOfFields(ParseInteger(parts[1], <<"x coordinate">>),
                          ParseInteger(parts[2], <<"y coordinate">>),
                          parts[3], p)

\* Variant: fields after the third are ignored, if (parts.length < 3).
PositionOfPartsAllowingExtra(line, parts, p) ==
    IF Len(parts) < 3
    THEN Thrown(<<"Invalid position line: expected \"x y D\", got \"${line}\"", line>>)
    ELSE PositionOfFields(ParseInteger(parts[1], <<"x coordinate">>),
                          ParseInteger(parts[2], <<"y coordinate">>),
                          ToUpperCase(parts[3]), p)

PositionOfParts(line, parts, p) ==
    IF Len(parts) # 3
    THEN Thrown(<<"Invalid position line: expected \"x y D\", got \"${line}\"", line>>)
    ELSE PositionOfFields(ParseInteger(parts[1], <<"x coordinate">>),
                          ParseInteger(parts[2], <<"y coordinate">>),
                          ToUpperCase(parts[3]), p)

\* parsePosition(line, plateau)
ParsePosition(line, p) == PositionOfParts(line, SplitWhitespace(line), p)

\* Variant: VALID_COMMANDS carries the global flag, /^[LRM]+$/g: test starts
\* at lastIndex, leaves it after the match, and resets it on failure.
TestValidCommandsGlobal(s, last) ==
    IF last = 0 /\ s # <<>> /\ \A k \in 1..Len(s) : s[k] \in {"L", "R", "M"}
    THEN [matches |-> TRUE, lastIndex |-> Len(s)]
    ELSE [matches |-> FALSE, lastIndex |-> 0]

\* Variant: the pattern is not anchored, /[LRM]+/: one command anywhere in
\* the line is enough.
TestValidCommandsUnanchored(s, last) ==
    [matches |-> \E k \in 1..Len(s) : s[k] \in {"L", "R", "M"},
     lastIndex |-> last]

\* VALID_COMMANDS.test(s) with const VALID_COMMANDS = /^[LRM]+$/: the match
\* is anchored at both ends and, without the g or y flag, neither reads nor
\* writes the lastIndex of the RegExp object.
TestValidCommands(s, last) ==
    [matches |-> s # <<>> /\ \A k \in 1..Len(s) : s[k] \in {"L", "R", "M"},
     lastIndex |-> last]

\* if (!VALID_COMMANDS.test(commands)) throw ...; return commands
CommandsOfTest(line, commandsUpper, test) ==
    [outcome |-> IF ~test.matches
                 THEN Thrown(<<"Invalid commands \"${line}\": must only contain L, R, or M",
                               line>>)
                 ELSE Returned(commandsUpper),
     lastIndex |-> test.lastIndex]

UpperCommands(line, commandsUpper, last) ==
    CommandsOfTest(line, commandsUpper, TestValidCommands(commandsUpper, last))

\* parseCommands(line); the RegExp's lastIndex is threaded through.
ParseCommands(line, last) == UpperCommands(line, ToUpperCase(line), last)

RECURSIVE ParseRovers(_, _, _, _, _)

\* Variant: each rover is put in front of the ones before it, unshift for
\* push.
RoverOfLinesPrepending(lines, k, p, acc, last, roverStart, roverCommands) ==
    IF ~roverStart.ok THEN [outcome |-> roverStart, lastIndex |-> last]
    ELSE IF ~roverCommands.outcome.ok THEN roverCommands
    ELSE ParseRovers(lines, k + 2, p,
                     <<[start |-> roverStart.value,
                        commands |-> roverCommands.outcome.value]>> \o acc,
                     roverCommands.lastIndex)

\* Variant: an invalid rover ends the loop, and the rovers validated before
\* it are returned.
RoverOfLinesKeepingValid(lines, k, p, acc, last, roverStart, roverCommands) ==
    IF ~roverStart.ok
    THEN [outcome |-> Returned([plateau |-> p, rovers |-> acc]), lastIndex |-> last]
    ELSE IF ~roverCommands.outcome.ok
    THEN [outcome |-> Returned([plateau |-> p, rovers |-> acc]),
          lastIndex |-> roverCommands.lastIndex]
    ELSE ParseRovers(lines, k + 2, p,
                     Append(acc, [start |-> roverStart.value,
                                  commands |-> roverCommands.outcome.value]),
                     roverCommands.lastIndex)

\* One turn of the for loop of parseInput: the position line is parsed
\* first, and the commands line only when that succeeded.
RoverOfLines(lines, k, p, acc, last, roverStart, roverCommands) ==
    IF ~roverStart.ok THEN [outcome |-> roverStart, lastIndex |-> last]
    ELSE IF ~roverCommands.outcome.ok THEN roverCommands
    ELSE ParseRovers(lines, k + 2, p,
                     Append(acc, [start |-> roverStart.value,
                                  commands |-> roverCommands.outcome.value]),
                     roverCommands.lastIndex)

\* The for loop of parseInput from line k (1-based here) on: rovers parsed so
\* far in acc.
ParseRovers(lines, k, p, acc, last) ==
    IF k > Len(lines)
    THEN [outcome |-> Returned([plateau |-> p, rovers |-> acc]), lastIndex |-> last]
    ELSE RoverOfLines(lines, k, p, acc, last,
                      ParsePosition(lines[k], p), ParseCommands(lines[k + 1], last))

IsNonEmpty(line) == Len(line) > 0

\* parseInput once the plateau line is parsed.
RoversOfPlateau(lines, parsedPlateau, last) ==
    IF ~parsedPlateau.ok
    THEN [outcome |-> parsedPlateau, lastIndex |-> last]
    ELSE ParseRovers(lines, 2, parsedPlateau.value, <<>>, last)

\* Variant: no emptiness check; no line at all is fewer than three lines.
ParseLinesFromMinimumShape(lines, last) ==
    IF Len(lines) < 3
    THEN [outcome |-> Thrown(<<"Input must contain at least plateau line + one rover (position + commands)">>),
          lastIndex |-> last]
    ELSE IF (Len(lines) - 1) % 2 # 0
    THEN [outcome |-> Thrown(<<"Invalid input format: each rover must have exactly 2 lines (position + commands)">>),
          lastIndex |-> last]
    ELSE RoversOfPlateau(lines, ParsePlateau(lines[1]), last)

\* Variant: the minimum shape is two lines, if (lines.length < 2).
ParseLinesFromTwo(lines, last) ==
    IF Len(lines) < 1
    THEN [outcome |-> Thrown(<<"Input is empty or contains no valid lines">>),
          lastIndex |-> last]
    ELSE IF Len(lines) < 2
    THEN [outcome |-> Thrown(<<"Input must contain at least plateau line + one rover (position + commands)">>),
          lastIndex |-> last]
    ELSE IF (Len(lines) - 1) % 2 # 0
    THEN [outcome |-> Thrown(<<"Invalid input format: each rover must have exactly 2 lines (position + commands)">>),
          lastIndex |-> last]
    ELSE RoversOfPlateau(lines, ParsePlateau(lines[1]), last)

\* Variant: a last position line without a commands line is ignored.
ParseLinesDroppingOddLine(lines, last) ==
    IF Len(lines) < 1
    THEN [outcome |-> Thrown(<<"Input is empty or contains no valid lines">>),
          lastIndex |-> last]
    ELSE IF Len(lines) < 3
    THEN [outcome |-> Thrown(<<"Input must contain at least plateau line + one rover (position + commands)">>),
          lastIndex |-> last]
    ELSE IF (Len(lines) - 1) % 2 # 0
    THEN RoversOfPlateau(SubSeq(lines, 1, Len(lines) - 1), ParsePlateau(lines[1]), last)
    ELSE RoversOfPlateau(lines, ParsePlateau(lines[1]), last)

\* Variant: the plateau line is parsed as soon as there is one, before the
\* lines are counted.
ParseLinesPlateauFirst(lines, last) ==
    IF Len(lines) < 1
    THEN [outcome |-> Thrown(<<"Input is empty or contains no valid lines">>),
          lastIndex |-> last]
    ELSE IF ~ParsePlateau(lines[1]).ok
    THEN [outcome |-> ParsePlateau(lines[1]), lastIndex |-> last]
    ELSE IF Len(lines) < 3
    THEN [outcome |-> Thrown(<<"Input must contain at least plateau line + one rover (position + commands)">>),
          lastIndex |-> last]
    ELSE IF (Len(lines) - 1) % 2 # 0
    THEN [outcome |-> Thrown(<<"Invalid input format: each rover must have exactly 2 lines (position + commands)">>),
          lastIndex |-> last]
    ELSE RoversOfPlateau(lines, ParsePlateau(lines[1]), last)

\* parseInput on its non-empty trimmed lines.
ParseLines(lines, last) ==
    IF Len(lines) < 1
    THEN [outcome |-> Thrown(<<"Input is empty or contains no valid lines">>),
          lastIndex |-> last]
    ELSE IF Len(lines) < 3
    THEN [outcome |-> Thrown(<<"Input must contain at least plateau line + one rover (position + commands)">>),
          lastIndex |-> last]
    ELSE IF (Len(lines) - 1) % 2 # 0
    THEN [outcome |-> Thrown(<<"Invalid input format: each rover must have exactly 2 lines (position + commands)">>),
          lastIndex |-> last]
    ELSE RoversOfPlateau(lines, ParsePlateau(lines[1]), last)

\* .map((line) => line.trim())
TrimEach(split) == [k \in 1..Len(split) |-> Trim(split[k])]

\* Variant: the lines are trimmed but the empty ones are kept, no filter.
ParseInputKeepingBlankLines(text, last) ==
    ParseLines(TrimEach(SplitLines(Trim(text))), last)

\* parseInput(input); last is the lastIndex of VALID_COMMANDS at the call.
ParseInput(text, last) ==
    ParseLines(SelectSeq(TrimEach(SplitLines(Trim(text))), IsNonEmpty), last)

\* ------------------------------------------------------------------ formatter

\* `${state.position.x} ${state.position.y} ${state.direction}`
FormatState(state) ==
    NumberToString(state.position.x) \o <<" ">> \o NumberToString(state.position.y)
        \o <<" ">> \o <<state.direction>>

\* Variant: every line ends with a newline, map(... + '\n').join('').
FormatOutputTerminated(states) ==
    Join([k \in 1..Len(states) |-> FormatState(states[k])], "\n")
        \o (IF states = <<>> THEN <<>> ELSE <<"\n">>)

\* formatOutput(states)
FormatOutput(states) ==
    Join([k \in 1..Len(states) |-> FormatState(states[k])], "\n")

\* ------------------------------------------------------------------ inputs

RECURSIVE StringsUpTo(_, _)
\* Every sequence over alphabet of length at most n.
StringsUpTo(alphabet, n) ==
    IF n = 0 THEN {<<>>}
    ELSE LET shorter == StringsUpTo(alphabet, n - 1)
         IN  shorter \cup {Append(s, c) : s \in {t \in shorter : Len(t) = n - 1},
                                         c \in alphabet}

Commands == {"L", "R", "M"}

Plateaus(m) == [maxX : 0..m, maxY : 0..m]

\* The rover states that lie within p: what the parser lets through.
StartStates(p) ==
    {RoverState(px, py, d) : px \in 0..p.maxX, py \in 0..p.maxY, d \in Direction}

RoverInputs(p, n) == [start : StartStates(p), commands : StringsUpTo(Commands, n)]

Rovers == DOMAIN rovers

\* ------------------------------------------------------------------ Init

\* const parsed of handleRunSimulation before parseInput was ever called.
NotParsed == [called |-> FALSE]

InitCalls ==
    /\ pc = [r \in Rovers |-> "call"]
    /\ x = [r \in Rovers |-> 0]
    /\ y = [r \in Rovers |-> 0]
    /\ dirNum = [r \in Rovers |-> 0]
    /\ i = [r \in Rovers |-> 0]
    /\ result = [r \in Rovers |-> NoResult]

\* The page is not involved: its state as first rendered, with an empty box.
InitPageIdle ==
    /\ input = <<>>
    /\ output = <<>>
    /\ error = <<>>
    /\ lastIndex = 0
    /\ runs = 0
    /\ parsed = NotParsed
    /\ edits = 0

\* One rover: a single invocation of executeCommands.
Init ==
    /\ plateau \in Plateaus(MaxCoord)
    /\ rovers \in {<<ri>> : ri \in RoverInputs(plateau, MaxLen)}
    /\ InitCalls
    /\ InitPageIdle

\* Several rovers on one plateau.
InitInterleaved ==
    /\ plateau \in Plateaus(MaxCoordMulti)
    /\ rovers \in [1..NumRovers -> RoverInputs(plateau, MaxLenMulti)]
    /\ InitCalls
    /\ InitPageIdle

\* The command strings of the scenarios.
ScenarioCommands ==
    { <<"M", "M", "M", "R", "M", "M", "M">>,
      <<"M", "M", "M", "M">>,
      <<"L", "M", "L", "M", "L", "M", "L", "M", "M">>,
      <<"M", "M", "R", "M", "M", "R", "M", "R", "R", "M">> }

\* One rover with the commands of a scenario, on any plateau and from any
\* state within it.
InitScenarios ==
    /\ plateau \in Plateaus(MaxCoord)
    /\ rovers \in {<<[start |-> st, commands |-> cs]>> :
                       st \in StartStates(plateau), cs \in ScenarioCommands}
    /\ InitCalls
    /\ InitPageIdle

\* Characters of a string given to executeCommands directly: the commands,
\* their lower-case letters and another letter.
AnyCharacters == {"L", "R", "M", "l", "r", "m", "X"}

\* One invocation on a string of any characters, from any state within the
\* plateau (1,1).
InitAnyCommands ==
    /\ plateau = [maxX |-> 1, maxY |-> 1]
    /\ rovers \in {<<[start |-> st, commands |-> cs]>> :
                       st \in StartStates(plateau),
                       cs \in StringsUpTo(AnyCharacters, MaxLenAny)}
    /\ InitCalls
    /\ InitPageIdle

\* The states within Margin cells of the plateau p, inside it or not.
AnyStartStates(p) ==
    {RoverState(px, py, d) : px \in (0 - Margin)..(p.maxX + Margin),
                             py \in (0 - Margin)..(p.maxY + Margin), d \in Direction}

\* One invocation from any state, on or off the plateau (1,1).
InitAnyStart ==
    /\ plateau = [maxX |-> 1, maxY |-> 1]
    /\ rovers \in {<<[start |-> st, commands |-> cs]>> :
                       st \in AnyStartStates(plateau),
                       cs \in StringsUpTo(Commands, MaxLen)}
    /\ InitCalls
    /\ InitPageIdle

\* const pattern = 'MMMMMRMMMMMLMMMMMLMMMMRMMMMMRMMMMM'
Pattern ==
    <<"M", "M", "M", "M", "M", "R", "M", "M", "M", "M", "M", "L">>
    \o <<"M", "M", "M", "M", "M", "L", "M", "M", "M", "M", "R">>
    \o <<"M", "M", "M", "M", "M", "R", "M", "M", "M", "M", "M">>

RECURSIVE RepeatString(_, _)
\* String.prototype.repeat
RepeatString(str, n) == IF n = 0 THEN <<>> ELSE str \o RepeatString(str, n - 1)

\* The pattern repeated from (0,0,N) on the plateau (10000,10000).
InitPattern ==
    /\ plateau = [maxX |-> 10000, maxY |-> 10000]
    /\ rovers \in {<<[start |-> RoverState(0, 0, "N"), commands |-> RepeatString(Pattern, n)]>> :
                       n \in 1..MaxRepetitions}
    /\ InitCalls
    /\ InitPageIdle

\* const SAMPLE_INPUT
SAMPLE_INPUT ==
    <<"5", " ", "5", "\n">>
    \o <<"1", " ", "2", " ", "N", "\n">>
    \o <<"L", "M", "L", "M", "L", "M", "L", "M", "M", "\n">>
    \o <<"3", " ", "3", " ", "E", "\n">>
    \o <<"M", "M", "R", "M", "M", "R", "M", "R", "R", "M">>

\* Lines a user may type: a plateau, positions inside and outside it,
\* commands in either case, invalid commands and a whitespace-only line.
SampleLines ==
    { <<"1", " ", "1">>,
      <<"0", " ", "1", "\t", "n">>,
      <<"M", "M", "R", "M">>,
      <<"l", "M">>,
      <<" ", "2", " ", "0", " ", "E", " ">>,
      <<"M", "3">> }

\* The texts of the input box: SAMPLE_INPUT and every text of at most
\* MaxLines sample lines.
InputTexts ==
    {SAMPLE_INPUT} \cup {Join(ls, "\n") : ls \in StringsUpTo(SampleLines, MaxLines)}

\* The page with a text in its box and nothing run yet: useState('') for
\* output and error; no invocation of the engine is in progress.
InitPage ==
    /\ input \in InputTexts
    /\ output = <<>>
    /\ error = <<>>
    /\ lastIndex = 0
    /\ runs = 0
    /\ parsed = NotParsed
    /\ edits = 0
    /\ plateau = [maxX |-> 0, maxY |-> 0]
    /\ rovers = <<>>
    /\ InitCalls

\* Plateau lines: valid ones (a single cell and one with a tab among them),
\* a single field, three fields, and a negative maxX and a negative maxY.
PlateauLines ==
    { <<"1", " ", "1">>,
      <<"0", " ", "0">>,
      <<"2", "\t", "2">>,
      <<"1">>,
      <<"1", " ", "1", " ", "1">>,
      <<"-", "1", " ", "1">>,
      <<"1", " ", "-", "1">> }

\* Position lines: the origin, the corner of plateau 1 1 in lower case behind
\* a tab and two spaces, x beyond plateau 1 1, a negative y, a letter and a
\* pair of letters that are no direction, a fourth field, and two fields only.
PositionLines ==
    { <<"0", " ", "0", " ", "N">>,
      <<"1", "\t", "1", " ", " ", "e">>,
      <<"2", " ", "0", " ", "S">>,
      <<"0", " ", "-", "1", " ", "w">>,
      <<"0", " ", "0", " ", "Q">>,
      <<"0", " ", "0", " ", "N", "e">>,
      <<"0", " ", "0", " ", "N", " ", "N">>,
      <<"0", " ", "0">> }

\* Commands lines: letters of either case, and a foreign letter.
CommandsLines == { <<"M", "r">>, <<"X">> }

\* Lines without content.
BlankLines == { <<>>, <<" ", "\t">> }

InputLines == PlateauLines \cup PositionLines \cup CommandsLines \cup BlankLines

\* Texts of at most MaxFreeLines lines, each any of InputLines.
FreeTexts == {Join(ls, "\n") : ls \in StringsUpTo(InputLines, MaxFreeLines)}

RECURSIVE Flatten(_)
Flatten(seqs) == IF seqs = <<>> THEN <<>> ELSE Head(seqs) \o Flatten(Tail(seqs))

\* Sequences of at most MaxPairs rovers, each a position line and a commands
\* line.
RoverLines ==
    {Flatten(ps) :
        ps \in StringsUpTo({<<pos, cmds>> : pos \in PositionLines, cmds \in CommandsLines},
                           MaxPairs)}

\* Texts laid out as the parser expects them: a plateau line and rover pairs.
PairedTexts == {Join(<<p>> \o rs, "\n") : p \in PlateauLines, rs \in RoverLines}

\* The same with one more position line that has no commands line.
UnpairedTexts ==
    {Join(<<p>> \o rs \o <<<<"0", " ", "0", " ", "N">>>>, "\n") :
        p \in PlateauLines, rs \in RoverLines}

\* Characters of a commands line: the three commands, a lower case one, a
\* digit, a space and a foreign letter.
CommandsAlphabet == {"L", "R", "M", "r", "3", " ", "X"}

\* One rover on plateau 1 1 whose commands line is any string over
\* CommandsAlphabet of at most MaxCommandsLen characters.
CommandsTexts ==
    {Join(<< <<"1", " ", "1">>, <<"0", " ", "0", " ", "N">>, c >>, "\n") :
        c \in StringsUpTo(CommandsAlphabet, MaxCommandsLen)}

\* A rover on plateau 1 1 whose commands line is left blank, alone and
\* followed by a second, complete rover.
BlankCommandsTexts ==
    {Join(<< <<"1", " ", "1">>, <<"0", " ", "0", " ", "N">>, b >> \o rest, "\n") :
        b \in BlankLines,
        rest \in { <<>>, << <<"1", " ", "1", " ", "e">>, <<"M", "r">> >> }}

\* Fields that are no integer: text with a letter, a fraction, NaN, Infinity.
NotIntegerFields ==
    { <<"1", "x">>,
      <<"1", ".", "5">>,
      <<"N", "a", "N">>,
      <<"I", "n", "f", "i", "n", "i", "t", "y">> }

\* One rover whose plateau and position are each two fields, any of them an
\* integer or not.
NumericTexts ==
    {Join(<< maxX \o <<" ">> \o maxY, px \o <<" ">> \o py \o <<" ", "N">>, <<"M">> >>, "\n") :
        maxX \in NotIntegerFields \cup {<<"1">>},
        maxY \in NotIntegerFields \cup {<<"1">>},
        px \in NotIntegerFields \cup {<<"1">>},
        py \in NotIntegerFields \cup {<<"1">>}}

ParserTexts ==
    FreeTexts \cup PairedTexts \cup UnpairedTexts \cup CommandsTexts \cup BlankCommandsTexts
        \cup NumericTexts

\* The page with a parser text in its box and nothing run yet.
InitParser ==
    /\ input \in ParserTexts
    /\ output = <<>>
    /\ error = <<>>
    /\ lastIndex = 0
    /\ runs = 0
    /\ parsed = NotParsed
    /\ edits = 0
    /\ plateau = [maxX |-> 0, maxY |-> 0]
    /\ rovers = <<>>
    /\ InitCalls

\* Fields of a plateau line: an integer, a negative integer, no integer.
PlateauFields == {<<"1">>, <<"-", "1">>, <<"1", "x">>}

\* Coordinates of a position line on the plateau 1 1: inside, outside, no
\* integer.
CoordinateFields == {<<"0">>, <<"2">>, <<"1", "x">>}

\* What follows the coordinates of a position line: nothing, a direction
\* letter or none, and a fourth field.
DirectionFields ==
    {<<>>, <<<<"N">>>>, <<<<"Q">>>>, <<<<"N">>, <<"N">>>>, <<<<"Q">>, <<"N">>>>}

\* One rover whose plateau line, or whose position line, breaks any of the
\* rules of its line, several at once among them.
OrderTexts ==
    {Join(<<Join(fs, " "), <<"0", " ", "0", " ", "N">>, <<"M">> >>, "\n") :
        fs \in StringsUpTo(PlateauFields, MaxFields) \ {<<>>}}
    \cup
    {Join(<<<<"1", " ", "1">>, Join(<<px, py>> \o ds, " "), <<"M">> >>, "\n") :
        px \in CoordinateFields, py \in CoordinateFields, ds \in DirectionFields}

\* The page with one of these texts in its box and nothing run yet.
InitOrder ==
    /\ input \in OrderTexts
    /\ output = <<>>
    /\ error = <<>>
    /\ lastIndex = 0
    /\ runs = 0
    /\ parsed = NotParsed
    /\ edits = 0
    /\ plateau = [maxX |-> 0, maxY |-> 0]
    /\ rovers = <<>>
    /\ InitCalls

\* Texts to edit: one rover on a valid and on a negative plateau, with a
\* position inside, outside and of two fields, and commands valid, foreign
\* and spaced; two rovers; and texts of two and of four lines.
EditTexts ==
    {Join(<<p, pos, c>>, "\n") :
        p \in { <<"1", " ", "1">>, <<"-", "1", " ", "1">> },
        pos \in { <<"0", " ", "0", " ", "N">>, <<"2", " ", "0", " ", "S">>, <<"0", " ", "0">> },
        c \in { <<"M", "r">>, <<"X">>, <<"L", " ", "M">> }}
    \cup {Join(ls, "\n") :
            ls \in { << <<"1", " ", "1">>, <<"0", " ", "0", " ", "N">>, <<"M", "r">>,
                        <<"1", " ", "1", " ", "e">>, <<"l">> >>,
                     << <<"1", " ", "1">>, <<"0", " ", "0", " ", "N">> >>,
                     << <<"1", " ", "1">>, <<"0", " ", "0", " ", "N">>, <<"M", "r">>,
                        <<"1", " ", "1", " ", "e">> >> }}

\* Texts a user may put in the box between clicks: the sample text, the
\* empty text and the texts to edit.
ClickTexts == {SAMPLE_INPUT, <<>>} \cup EditTexts

\* The page as first rendered: useState(SAMPLE_INPUT), useState(''),
\* useState('').
InitClicks ==
    /\ input = SAMPLE_INPUT
    /\ output = <<>>
    /\ error = <<>>
    /\ lastIndex = 0
    /\ runs = 0
    /\ parsed = NotParsed
    /\ edits = 0
    /\ plateau = [maxX |-> 0, maxY |-> 0]
    /\ rovers = <<>>
    /\ InitCalls

\* The page with a text to edit in its box and nothing run yet.
InitEdit ==
    /\ input \in EditTexts
    /\ output = <<>>
    /\ error = <<>>
    /\ lastIndex = 0
    /\ runs = 0
    /\ parsed = NotParsed
    /\ edits = 0
    /\ plateau = [maxX |-> 0, maxY |-> 0]
    /\ rovers = <<>>
    /\ InitCalls

\* Final states to format: coordinates of one and of two digits.
FormatStates == {RoverState(px, py, d) : px \in {0, 12}, py \in {0, 12}, d \in Direction}

\* Every rover has returned: result is the list finalStates of
\* handleRunSimulation, about to be formatted. The rovers are taken to have
\* no commands, so that each final state is the rover's start state.
InitFormat ==
    /\ plateau = [maxX |-> 12, maxY |-> 12]
    /\ result \in StringsUpTo(FormatStates, MaxStates)
    /\ rovers = [r \in DOMAIN result |-> [start |-> result[r], commands |-> <<>>]]
    /\ pc = [r \in Rovers |-> "done"]
    /\ x = [r \in Rovers |-> result[r].position.x]
    /\ y = [r \in Rovers |-> result[r].position.y]
    /\ dirNum = [r \in Rovers |-> DIR_TO_NUM[result[r].direction]]
    /\ i = [r \in Rovers |-> 0]
    /\ InitPageIdle

\* ------------------------------------------------------------------ actions

start(r) == rovers[r].start
commands(r) == rovers[r].commands

\* const cmd = commands[i]
cmd(r) == commands(r)[i[r] + 1]

InLoop(r) == pc[r] = "loop" /\ i[r] < Len(commands(r))

\* Variant: the heading is not seeded from start.direction.
CallFacingNorth(r) ==
    /\ pc[r] = "call"
    /\ x' = [x EXCEPT ![r] = start(r).position.x]
    /\ y' = [y EXCEPT ![r] = start(r).position.y]
    /\ dirNum' = [dirNum EXCEPT ![r] = 0]
    /\ i' = [i EXCEPT ![r] = 0]
    /\ pc' = [pc EXCEPT ![r] = "loop"]
    /\ UNCHANGED <<plateau, rovers, result>>
    /\ UNCHANGED pageVars

\* let x = start.position.x; let y = start.position.y;
\* let dirNum = DIR_TO_NUM[start.direction]; i = 0
Call(r) ==
    /\ pc[r] = "call"
    /\ x' = [x EXCEPT ![r] = start(r).position.x]
    /\ y' = [y EXCEPT ![r] = start(r).position.y]
    /\ dirNum' = [dirNum EXCEPT ![r] = DIR_TO_NUM[start(r).direction]]
    /\ i' = [i EXCEPT ![r] = 0]
    /\ pc' = [pc EXCEPT ![r] = "loop"]
    /\ UNCHANGED <<plateau, rovers, result>>
    /\ UNCHANGED pageVars

\* if (cmd === 'L') dirNum = (dirNum + 3) % 4
TurnLeft(r) ==
    /\ InLoop(r)
    /\ cmd(r) = "L"
    /\ dirNum' = [dirNum EXCEPT ![r] = TurnLeftNum(dirNum[r])]
    /\ i' = [i EXCEPT ![r] = i[r] + 1]
    /\ UNCHANGED <<plateau, rovers, pc, x, y, result>>
    /\ UNCHANGED pageVars

\* else if (cmd === 'R') dirNum = (dirNum + 1) % 4
TurnRight(r) ==
    /\ InLoop(r)
    /\ cmd(r) = "R"
    /\ dirNum' = [dirNum EXCEPT ![r] = TurnRightNum(dirNum[r])]
    /\ i' = [i EXCEPT ![r] = i[r] + 1]
    /\ UNCHANGED <<plateau, rovers, pc, x, y, result>>
    /\ UNCHANGED pageVars

\* Variant: a rejected move leaves the loop (break) instead of continuing.
MoveHalting(r) ==
    /\ InLoop(r)
    /\ cmd(r) = "M"
    /\ LET newX == x[r] + DELTAS[dirNum[r]][1]
           newY == y[r] + DELTAS[dirNum[r]][2]
       IN  IF InBounds(newX, newY, plateau)
           THEN /\ x' = [x EXCEPT ![r] = newX]
                /\ y' = [y EXCEPT ![r] = newY]
                /\ i' = [i EXCEPT ![r] = i[r] + 1]
           ELSE /\ UNCHANGED <<x, y>>
                /\ i' = [i EXCEPT ![r] = Len(commands(r))]
    /\ UNCHANGED <<plateau, rovers, pc, dirNum, result>>
    /\ UNCHANGED pageVars

\* Variant: a rejected move is retried (the index advances only on success).
MoveRetrying(r) ==
    /\ InLoop(r)
    /\ cmd(r) = "M"
    /\ LET newX == x[r] + DELTAS[dirNum[r]][1]
           newY == y[r] + DELTAS[dirNum[r]][2]
       IN  IF InBounds(newX, newY, plateau)
           THEN /\ x' = [x EXCEPT ![r] = newX]
                /\ y' = [y EXCEPT ![r] = newY]
                /\ i' = [i EXCEPT ![r] = i[r] + 1]
           ELSE UNCHANGED <<x, y, i>>
    /\ UNCHANGED <<plateau, rovers, pc, dirNum, result>>
    /\ UNCHANGED pageVars

\* Variant: a move onto a cell another running rover occupies is rejected.
MoveColliding(r) ==
    /\ InLoop(r)
    /\ cmd(r) = "M"
    /\ LET newX == x[r] + DELTAS[dirNum[r]][1]
           newY == y[r] + DELTAS[dirNum[r]][2]
           occupied == \E q \in Rovers \ {r} :
                           pc[q] # "call" /\ x[q] = newX /\ y[q] = newY
       IN  IF InBounds(newX, newY, plateau) /\ ~occupied
           THEN /\ x' = [x EXCEPT ![r] = newX]
                /\ y' = [y EXCEPT ![r] = newY]
           ELSE UNCHANGED <<x, y>>
    /\ i' = [i EXCEPT ![r] = i[r] + 1]
    /\ UNCHANGED <<plateau, rovers, pc, dirNum, result>>
    /\ UNCHANGED pageVars

\* Variant: a move off the plateau comes in at the opposite edge.
MoveWrapping(r) ==
    /\ InLoop(r)
    /\ cmd(r) = "M"
    /\ x' = [x EXCEPT ![r] = (x[r] + DELTAS[dirNum[r]][1]) % (plateau.maxX + 1)]
    /\ y' = [y EXCEPT ![r] = (y[r] + DELTAS[dirNum[r]][2]) % (plateau.maxY + 1)]
    /\ i' = [i EXCEPT ![r] = i[r] + 1]
    /\ UNCHANGED <<plateau, rovers, pc, dirNum, result>>
    /\ UNCHANGED pageVars

\* Variant: the bounds are checked only for a rover that is on the plateau.
MoveUncheckedOutside(r) ==
    /\ InLoop(r)
    /\ cmd(r) = "M"
    /\ LET newX == x[r] + DELTAS[dirNum[r]][1]
           newY == y[r] + DELTAS[dirNum[r]][2]
       IN  IF InBounds(newX, newY, plateau) \/ ~InBounds(x[r], y[r], plateau)
           THEN /\ x' = [x EXCEPT ![r] = newX]
                /\ y' = [y EXCEPT ![r] = newY]
           ELSE UNCHANGED <<x, y>>
    /\ i' = [i EXCEPT ![r] = i[r] + 1]
    /\ UNCHANGED <<plateau, rovers, pc, dirNum, result>>
    /\ UNCHANGED pageVars

\* Variant: a rejected move turns the rover round.
MoveBouncing(r) ==
    /\ InLoop(r)
    /\ cmd(r) = "M"
    /\ LET newX == x[r] + DELTAS[dirNum[r]][1]
           newY == y[r] + DELTAS[dirNum[r]][2]
       IN  IF InBounds(newX, newY, plateau)
           THEN /\ x' = [x EXCEPT ![r] = newX]
                /\ y' = [y EXCEPT ![r] = newY]
                /\ UNCHANGED dirNum
           ELSE /\ UNCHANGED <<x, y>>
                /\ dirNum' = [dirNum EXCEPT ![r] = (dirNum[r] + 2) % 4]
    /\ i' = [i EXCEPT ![r] = i[r] + 1]
    /\ UNCHANGED <<plateau, rovers, pc, result>>
    /\ UNCHANGED pageVars

\* Variant: a rejected move also drops the command after it.
MoveDroppingNext(r) ==
    /\ InLoop(r)
    /\ cmd(r) = "M"
    /\ LET newX == x[r] + DELTAS[dirNum[r]][1]
           newY == y[r] + DELTAS[dirNum[r]][2]
       IN  IF InBounds(newX, newY, plateau)
           THEN /\ x' = [x EXCEPT ![r] = newX]
                /\ y' = [y EXCEPT ![r] = newY]
                /\ i' = [i EXCEPT ![r] = i[r] + 1]
           ELSE /\ UNCHANGED <<x, y>>
                /\ i' = [i EXCEPT ![r] = i[r] + 2]
    /\ UNCHANGED <<plateau, rovers, pc, dirNum, result>>
    /\ UNCHANGED pageVars

\* else if (cmd === 'M') { const [dx, dy] = DELTAS[dirNum]; ... }
\* Destructuring DELTAS[dirNum] throws when dirNum is no index of DELTAS.
Move(r) ==
    /\ InLoop(r)
    /\ cmd(r) = "M"
    /\ IF dirNum[r] \in DOMAIN DELTAS
       THEN LET newX == x[r] + DELTAS[dirNum[r]][1]
                newY == y[r] + DELTAS[dirNum[r]][2]
            IN  /\ IF InBounds(newX, newY, plateau)
                   THEN /\ x' = [x EXCEPT ![r] = newX]
                        /\ y' = [y EXCEPT ![r] = newY]
                   ELSE UNCHANGED <<x, y>>
                /\ i' = [i EXCEPT ![r] = i[r] + 1]
                /\ UNCHANGED pc
       ELSE /\ pc' = [pc EXCEPT ![r] = "threw"]
            /\ UNCHANGED <<x, y, i>>
    /\ UNCHANGED <<plateau, rovers, dirNum, result>>
    /\ UNCHANGED pageVars

\* Variant: the final state is written into the start object, which is
\* returned (start.position.x = x; ...; return start).
ReturnInPlace(r) ==
    /\ pc[r] = "loop"
    /\ i[r] >= Len(commands(r))
    /\ result' = [result EXCEPT ![r] = RoverState(x[r], y[r], DirectionOf(dirNum[r]))]
    /\ rovers' = [rovers EXCEPT ![r].start = RoverState(x[r], y[r], DirectionOf(dirNum[r]))]
    /\ pc' = [pc EXCEPT ![r] = "done"]
    /\ UNCHANGED <<plateau, x, y, dirNum, i>>
    /\ UNCHANGED pageVars

\* Variant: a character that is no command ends the loop (break).
SkipBreaking(r) ==
    /\ InLoop(r)
    /\ cmd(r) \notin {"L", "R", "M"}
    /\ i' = [i EXCEPT ![r] = Len(commands(r))]
    /\ UNCHANGED <<plateau, rovers, pc, x, y, dirNum, result>>
    /\ UNCHANGED pageVars

\* cmd is none of 'L', 'R', 'M': no branch of the if chain is taken and the
\* loop goes on, i++.
Skip(r) ==
    /\ InLoop(r)
    /\ cmd(r) \notin {"L", "R", "M"}
    /\ i' = [i EXCEPT ![r] = i[r] + 1]
    /\ UNCHANGED <<plateau, rovers, pc, x, y, dirNum, result>>
    /\ UNCHANGED pageVars

\* i < commands.length fails: return { position: { x, y }, direction: DIRECTIONS[dirNum] }
Return(r) ==
    /\ pc[r] = "loop"
    /\ i[r] >= Len(commands(r))
    /\ result' = [result EXCEPT ![r] = RoverState(x[r], y[r], DirectionOf(dirNum[r]))]
    /\ pc' = [pc EXCEPT ![r] = "done"]
    /\ UNCHANGED <<plateau, rovers, x, y, dirNum, i>>
    /\ UNCHANGED pageVars

Next ==
    \/ \E r \in Rovers : Call(r)
    \/ \E r \in Rovers : TurnLeft(r)
    \/ \E r \in Rovers : TurnRight(r)
    \/ \E r \in Rovers : Move(r)
    \/ \E r \in Rovers : Return(r)

Spec == Init /\ [][Next]_vars

\* The loop is straight-line synchronous code: an enabled step is taken.
FairSpec == Init /\ [][Next]_vars /\ WF_vars(Next)

\* Any interleaving of the steps of several invocations.
SpecInterleaved == InitInterleaved /\ [][Next]_vars

\* One invocation on the commands of a scenario.
SpecScenarios == InitScenarios /\ [][Next]_vars

\* One invocation on repetitions of the pattern.
SpecPattern == InitPattern /\ [][Next]_vars

\* One invocation from a state on or off the plateau.
SpecAnyStart == InitAnyStart /\ [][Next]_vars

\* The steps of the loop on a string of any characters.
NextAny ==
    \/ Next
    \/ \E r \in Rovers : Skip(r)

\* One invocation on a string of any characters.
SpecAnyCommands == InitAnyCommands /\ [][NextAny]_vars

\* ------------------------------------------------------------------ page

\* Variant: the results are collected in the order the invocations finish,
\* the last rover first.
FinalStatesReversed(parsedInput) ==
    [k \in 1..Len(parsedInput.rovers) |->
        ExecuteCommands(parsedInput.rovers[Len(parsedInput.rovers) + 1 - k].start,
                        parsedInput.rovers[Len(parsedInput.rovers) + 1 - k].commands,
                        parsedInput.plateau)]

\* parsed.rovers.map((rover) => executeCommands(rover.start, rover.commands,
\* parsed.plateau))
FinalStates(parsedInput) ==
    [k \in 1..Len(parsedInput.rovers) |->
        ExecuteCommands(parsedInput.rovers[k].start, parsedInput.rovers[k].commands,
                        parsedInput.plateau)]

\* Variant: neither the try block nor the catch block clears the output or
\* the error of the run before.
RunParsedKeepingOld(call) ==
    /\ lastIndex' = call.lastIndex
    /\ parsed' = call.outcome
    /\ IF call.outcome.ok
       THEN output' = FormatOutput(FinalStates(call.outcome.value)) /\ UNCHANGED error
       ELSE UNCHANGED output /\ error' = call.outcome.error

\* The body of handleRunSimulation given what parseInput did.
RunParsed(call) ==
    /\ lastIndex' = call.lastIndex
    /\ parsed' = call.outcome
    /\ IF call.outcome.ok
       THEN output' = FormatOutput(FinalStates(call.outcome.value)) /\ error' = <<>>
       ELSE output' = <<>> /\ error' = call.outcome.error

\* handleRunSimulation: setError(''), setOutput(''), then parse, execute each
\* rover, format and setOutput; a thrown error becomes the error message and
\* clears the output.
RunSimulation ==
    /\ runs < MaxRuns
    /\ RunParsed(ParseInput(input, lastIndex))
    /\ runs' = runs + 1
    /\ UNCHANGED <<input, edits>>
    /\ UNCHANGED engineVars

NextRun == RunSimulation

\* The button is clicked again and again on one text.
SpecRun == InitPage /\ [][NextRun]_vars

\* The typed lines with a blank line put in before any of them or after the
\* last.
WithBlankLine(typed) ==
    {Join(SubSeq(typed, 1, k) \o <<b>> \o SubSeq(typed, k + 1, Len(typed)), "\n") :
        k \in 0..Len(typed), b \in BlankLines}

\* The typed lines with a space or a tab put before or after one of them.
WithPaddedLine(typed) ==
    {Join([typed EXCEPT ![k] = before \o typed[k] \o after], "\n") :
        k \in 1..Len(typed),
        before \in {<<>>, <<" ">>, <<"\t">>},
        after \in {<<>>, <<" ">>, <<"\t">>}} \ {Join(typed, "\n")}

\* The text with one of its spaces and tabs replaced by a run of them.
WithWiderSeparator(text) ==
    {SubSeq(text, 1, j - 1) \o run \o SubSeq(text, j + 1, Len(text)) :
        j \in {h \in 1..Len(text) : text[h] \in {" ", "\t"}},
        run \in {<<"\t">>, <<" ", " ">>, <<" ", "\t">>}}

\* What a whitespace edit can make of a text.
WhitespaceEdits(text) ==
    WithBlankLine(SplitLines(text)) \cup WithPaddedLine(SplitLines(text))
        \cup WithWiderSeparator(text)

\* onChange of the textarea, setInput(e.target.value), for a value that
\* differs from the text that was run by whitespace only. The output and the
\* error of the last run stay on the page.
EditWhitespace ==
    /\ runs >= 1
    /\ edits < MaxEdits
    /\ input' \in WhitespaceEdits(input)
    /\ edits' = edits + 1
    /\ UNCHANGED <<output, error, lastIndex, runs, parsed>>
    /\ UNCHANGED engineVars

NextEdit == RunSimulation \/ EditWhitespace

\* Runs of the simulation with whitespace edits of the text after the first.
SpecEdit == InitEdit /\ [][NextEdit]_vars

\* onChange of the textarea: setInput(e.target.value).
SetInput ==
    /\ input' \in ClickTexts \ {input}
    /\ UNCHANGED <<output, error, lastIndex, runs, parsed, edits>>
    /\ UNCHANGED engineVars

NextClicks == RunSimulation \/ SetInput

\* Any sequence of clicks of the button, the text changed at will.
SpecClicks == InitClicks /\ [][NextClicks]_vars

\* The end of handleRunSimulation: const formatted =
\* formatOutput(finalStates); setOutput(formatted).
FormatResults ==
    /\ runs = 0
    /\ output' = FormatOutput(result)
    /\ runs' = runs + 1
    /\ UNCHANGED <<input, error, lastIndex, parsed, edits>>
    /\ UNCHANGED engineVars

\* The final states of any list of rovers are formatted.
SpecFormat == InitFormat /\ [][FormatResults]_vars

\* The first click of the button on a text.
RunOnce == runs = 0 /\ RunSimulation

\* One run on each of the texts that exercise every check of the parser.
SpecParser == InitParser /\ [][RunOnce]_vars

\* The first click of the button on a text that breaks the rules of a line.
SpecOrder == InitOrder /\ [][RunOnce]_vars

\* ------------------------------------------------------- properties: engine

\* The heading letter the locals of r stand for.
Heading(r) == DirectionOf(dirNum[r])

\* The unit displacement of each heading, as the specification lists it.
Displacement == [N |-> <<0, 1>>, E |-> <<1, 0>>, S |-> <<0, -1>>, W |-> <<-1, 0>>]

\* The cell one step ahead of (px, py) when facing d.
Ahead(px, py, d) == <<px + Displacement[d][1], py + Displacement[d][2]>>

OnPlateau(cell) ==
    /\ 0 <= cell[1] /\ cell[1] <= plateau.maxX
    /\ 0 <= cell[2] /\ cell[2] <= plateau.maxY

\* The invocation of r takes this step.
Steps(r) == <<pc[r], x[r], y[r], dirNum[r], i[r]>>' # <<pc[r], x[r], y[r], dirNum[r], i[r]>>

Running(r) == pc[r] \in {"loop", "done"}

\* The locals of r hold the start state again.
AtStart(r) ==
    /\ x[r] = start(r).position.x
    /\ y[r] = start(r).position.y
    /\ Heading(r) = start(r).direction

Prefix(r, n) == SubSeq(commands(r), 1, n)

\* C1: after every prefix of the commands, and in the returned state, the
\* position lies within [0, maxX] x [0, maxY].
BoundaryContainment ==
    \A r \in Rovers :
        /\ Running(r) => OnPlateau(<<x[r], y[r]>>)
        /\ pc[r] = "done" => OnPlateau(<<result[r].position.x, result[r].position.y>>)

\* C1 witness: a rover in the far corner facing North has been told to move
\* and is done, still in the corner.
EscapeAttempted ==
    \E r \in Rovers :
        /\ pc[r] = "done"
        /\ start(r) = RoverState(plateau.maxX, plateau.maxY, "N")
        /\ Len(commands(r)) >= 2
        /\ commands(r)[1] = "M"
        /\ commands(r)[2] = "M"

\* The first command of r is a move that the plateau rejects.
FirstMoveRejected(r) ==
    /\ Len(commands(r)) >= 1
    /\ commands(r)[1] = "M"
    /\ ~OnPlateau(Ahead(start(r).position.x, start(r).position.y, start(r).direction))

\* C2: a move whose candidate cell is off the plateau changes neither position
\* nor heading, raises nothing, and the loop goes on to the next command; the
\* result of 'M' + rest is the result of rest when that first M is rejected.
RejectedMoveIsNoOp ==
    /\ [][\A r \in Rovers :
            (/\ Steps(r)
             /\ InLoop(r)
             /\ cmd(r) = "M"
             /\ ~OnPlateau(Ahead(x[r], y[r], Heading(r))))
            => /\ x'[r] = x[r]
               /\ y'[r] = y[r]
               /\ dirNum'[r] = dirNum[r]
               /\ pc'[r] = "loop"
               /\ i'[r] = i[r] + 1]_vars
    /\ [](\A r \in Rovers :
            (pc[r] = "done" /\ FirstMoveRejected(r))
            => result[r] = ExecuteCommands(start(r), Tail(commands(r)), plateau))

\* C2 witness: the first move was rejected and a later one moved the rover.
MovedAfterRejectedMove ==
    \E r \in Rovers :
        /\ pc[r] = "done"
        /\ FirstMoveRejected(r)
        /\ result[r].position # start(r).position

\* C3: a move whose candidate cell is on the plateau puts the rover on exactly
\* that cell and keeps the heading.
AcceptedMove ==
    [][\A r \in Rovers :
        (/\ Steps(r)
         /\ InLoop(r)
         /\ cmd(r) = "M"
         /\ OnPlateau(Ahead(x[r], y[r], Heading(r))))
        => /\ <<x'[r], y'[r]>> = Ahead(x[r], y[r], Heading(r))
           /\ dirNum'[r] = dirNum[r]]_vars

\* C3 witness: one accepted move to the South has been made.
MovedSouth ==
    \E r \in Rovers :
        /\ pc[r] = "loop"
        /\ i[r] = 1
        /\ commands(r)[1] = "M"
        /\ start(r).direction = "S"
        /\ y[r] = start(r).position.y - 1

LeftOf == [N |-> "W", W |-> "S", S |-> "E", E |-> "N"]
RightOf == [N |-> "E", E |-> "S", S |-> "W", W |-> "N"]

\* C4: L maps the heading along N->W->S->E->N, R along N->E->S->W->N, and
\* neither changes the position.
TurnsChangeOnlyHeading ==
    [][\A r \in Rovers :
        (Steps(r) /\ InLoop(r) /\ cmd(r) \in {"L", "R"})
        => /\ Heading(r)' = IF cmd(r) = "L" THEN LeftOf[Heading(r)] ELSE RightOf[Heading(r)]
           /\ x'[r] = x[r]
           /\ y'[r] = y[r]]_vars

\* C4 witness: a rover away from the origin has turned left from North to West.
TurnedLeftFromNorth ==
    \E r \in Rovers :
        /\ pc[r] = "loop"
        /\ i[r] = 1
        /\ commands(r)[1] = "L"
        /\ start(r).direction = "N"
        /\ Heading(r) = "W"
        /\ x[r] > 0

\* C5: 'LR' and 'RL' bring every start state back.
TurnsAreInverses ==
    \A r \in Rovers :
        /\ (pc[r] = "loop" /\ i[r] = 2 /\ Prefix(r, 2) \in {<<"L", "R">>, <<"R", "L">>})
           => AtStart(r)
        /\ (pc[r] = "done" /\ commands(r) \in {<<"L", "R">>, <<"R", "L">>})
           => result[r] = start(r)

\* C5 witness: 'RL' has been executed from a West heading.
RanRightLeftFromWest ==
    \E r \in Rovers :
        /\ pc[r] = "done"
        /\ commands(r) = <<"R", "L">>
        /\ start(r).direction = "W"

Repeat4(c) == <<c, c, c, c>>

\* C6: 'LLLL' and 'RRRR' bring every start state back.
FourTurnsAreIdentity ==
    \A r \in Rovers :
        /\ (pc[r] = "loop" /\ i[r] = 4 /\ Prefix(r, 4) \in {Repeat4("L"), Repeat4("R")})
           => AtStart(r)
        /\ (pc[r] = "done" /\ commands(r) \in {Repeat4("L"), Repeat4("R")})
           => result[r] = start(r)

\* C6 witness: 'LLLL' has been executed from an East heading.
RanFourLeftsFromEast ==
    \E r \in Rovers :
        /\ pc[r] = "done"
        /\ commands(r) = Repeat4("L")
        /\ start(r).direction = "E"

\* C7: the empty command string returns a state equal to the start state.
EmptyIsIdentity ==
    \A r \in Rovers :
        (pc[r] = "done" /\ commands(r) = <<>>) => result[r] = start(r)

\* C7 witness: an invocation with no commands has returned, from a heading
\* other than North and a cell other than the origin.
RanEmptyCommands ==
    \E r \in Rovers :
        /\ pc[r] = "done"
        /\ commands(r) = <<>>
        /\ start(r).direction = "S"
        /\ start(r).position.x > 0

\* C8: an invocation never throws, each loop step consumes exactly the next
\* command, the invocation returns once all of them are consumed and not
\* before, and it does return.
EngineTerminates ==
    /\ [](\A r \in Rovers : pc[r] # "threw")
    /\ [](\A r \in Rovers : pc[r] = "done" => i[r] = Len(commands(r)))
    /\ [][\A r \in Rovers :
            (Steps(r) /\ pc[r] = "loop")
            => \/ i[r] < Len(commands(r)) /\ i'[r] = i[r] + 1 /\ pc'[r] = "loop"
               \/ i[r] = Len(commands(r)) /\ i'[r] = i[r] /\ pc'[r] = "done"]_vars
    /\ <>(\A r \in Rovers : pc[r] = "done" /\ result[r] # NoResult)

\* C8 witness: an invocation has returned after a command string of full
\* length that holds all three commands and a rejected move.
RanAllCommands ==
    \E r \in Rovers :
        /\ pc[r] = "done"
        /\ Len(commands(r)) = MaxLen
        /\ {commands(r)[k] : k \in 1..MaxLen} = Commands
        /\ FirstMoveRejected(r)

\* C10: under any interleaving of the steps of the rovers, each rover returns
\* what its own invocation returns when run alone.
RoversAreIndependent ==
    \A r \in Rovers :
        pc[r] = "done" => result[r] = ExecuteCommands(start(r), commands(r), plateau)

\* C10 witness: two rovers that started on different cells have both
\* returned from the same cell.
RoversShareCell ==
    \E r, q \in Rovers :
        /\ r # q
        /\ pc[r] = "done" /\ pc[q] = "done"
        /\ start(r).position # start(q).position
        /\ result[r].position = result[q].position

\* ------------------------------------------------------- properties: page

\* C9: run again on the same text, the simulation leaves the same output text
\* and the same error message as the run before.
RunsAreDeterministic ==
    [][(runs >= 1 /\ runs' = runs + 1) => (output' = output /\ error' = error)]_vars

\* C9 witness: the second run on a text of two valid rovers has left an output
\* of two lines.
RanTwiceOnTwoRovers ==
    /\ runs = 2
    /\ error = <<>>
    /\ Len(SplitLines(output)) = 2
    /\ Len(SelectSeq(SplitLines(input), IsNonEmpty)) = 5

\* ------------------------------------------------------- properties: parser

\* The non-blank lines of a text, each trimmed.
LinesOf(text) == SelectSeq(TrimEach(SplitLines(Trim(text))), IsNonEmpty)

\* A run of handleRunSimulation has completed on the text of the box.
HasRun == runs >= 1

\* The last run got a ParsedInput from parseInput.
Parsed == HasRun /\ parsed.ok

\* The last run caught the error with this message template.
Failed(template) == HasRun /\ ~parsed.ok /\ parsed.error[1] = template

\* The line reported for a rover: its commands executed from its start state
\* on the plateau of the plateau line.
ReportOn(p, positionLine, commandsLine) ==
    FormatState(ExecuteCommands(ParsePosition(positionLine, p).value,
                                ToUpperCase(commandsLine), p))

InInputOrder(lines, reported) ==
    /\ 2 * Len(reported) = Len(lines) - 1
    /\ \A k \in 1..Len(reported) :
          reported[k] = ReportOn(ParsePlateau(lines[1]).value, lines[2 * k], lines[2 * k + 1])

\* C11: after a successful run the output has one line per rover of the
\* input, and its k-th line is the final state of the k-th rover: the k-th
\* commands line executed from the k-th position line.
OutputOrderMatchesInputOrder ==
    Parsed => InInputOrder(LinesOf(input), SplitLines(output))

\* C11 witness: a run on two rovers that end in different states.
ReportedTwoDistinctRovers ==
    /\ Parsed
    /\ Len(SplitLines(output)) = 2
    /\ SplitLines(output)[1] # SplitLines(output)[2]

\* Every character of the text is whitespace: no line of it has content.
NoContent(text) == \A k \in 1..Len(text) : IsWhitespace(text[k])

\* C12: a run on a text without a non-blank line (the empty text, whitespace
\* only, blank lines only) fails with the error that the input is empty.
EmptyInputFails ==
    (HasRun /\ NoContent(input)) => Failed("Input is empty or contains no valid lines")

\* C12 witness: a run has failed so on a text of two blank lines.
RanOnBlankLines ==
    /\ Failed("Input is empty or contains no valid lines")
    /\ Len(SplitLines(input)) = 2
    /\ \E k \in 1..Len(input) : input[k] = "\t"

\* C13: a run on a text of exactly one or two non-blank lines fails with the
\* error that a plateau line and at least one rover are required.
TooFewLinesFail ==
    (HasRun /\ Len(LinesOf(input)) \in {1, 2})
        => Failed("Input must contain at least plateau line + one rover (position + commands)")

\* C13 witness: a run has failed so on a plateau line and a position line.
RanOnPlateauAndPosition ==
    /\ Failed("Input must contain at least plateau line + one rover (position + commands)")
    /\ Len(LinesOf(input)) = 2
    /\ ParsePlateau(LinesOf(input)[1]).ok
    /\ ParsePosition(LinesOf(input)[2], ParsePlateau(LinesOf(input)[1]).value).ok

\* C14: a run on a text of at least three non-blank lines, with an odd number
\* of them after the first, fails with the error that each rover takes two
\* lines, and nothing is reported for any rover.
OddRoverLinesFail ==
    (HasRun /\ Len(LinesOf(input)) >= 3 /\ (Len(LinesOf(input)) - 1) % 2 = 1)
        => /\ Failed("Invalid input format: each rover must have exactly 2 lines (position + commands)")
           /\ output = <<>>

\* C14 witness: a run has failed so on a valid plateau, a valid rover and one
\* more position line.
RanOnRoverAndHalf ==
    /\ Failed("Invalid input format: each rover must have exactly 2 lines (position + commands)")
    /\ Len(LinesOf(input)) = 4
    /\ ParseInput(Join(SubSeq(LinesOf(input), 1, 3), "\n"), 0).outcome.ok

\* What the check of line j of a text does on its own, on plateau p: the
\* lines after the first are position lines and commands lines in turn.
LineOutcome(lines, j, p) ==
    IF j % 2 = 0 THEN ParsePosition(lines[j], p) ELSE ParseCommands(lines[j], 0).outcome

\* The error of the first of the lines in bad, <<>> when there is none.
ErrorOfFirst(lines, p, bad) ==
    IF bad = {} THEN <<>>
    ELSE LineOutcome(lines, CHOOSE j \in bad : \A h \in bad : j <= h, p).error

EarliestRoverError(lines, p) ==
    ErrorOfFirst(lines, p, {j \in 2..Len(lines) : ~LineOutcome(lines, j, p).ok})

\* The error of the earliest check that the lines fail, in the order
\* emptiness, minimum shape, pairing, plateau line, then each rover's
\* position line and commands line; <<>> when they pass every check.
EarliestError(lines) ==
    IF Len(lines) = 0 THEN <<"Input is empty or contains no valid lines">>
    ELSE IF Len(lines) \in {1, 2}
    THEN <<"Input must contain at least plateau line + one rover (position + commands)">>
    ELSE IF (Len(lines) - 1) % 2 = 1
    THEN <<"Invalid input format: each rover must have exactly 2 lines (position + commands)">>
    ELSE IF ~ParsePlateau(lines[1]).ok THEN ParsePlateau(lines[1]).error
    ELSE EarliestRoverError(lines, ParsePlateau(lines[1]).value)

\* The error the last run caught, <<>> when it caught none.
ReportedError == IF parsed.ok THEN <<>> ELSE parsed.error

\* C15: a run reports the error of the earliest failed check and no other:
\* a structural error whatever the plateau line holds, a plateau error
\* whatever the rover lines hold, and the error of the first rover line that
\* fails, a rover's position line before its commands line.
FailFastOrdering == HasRun => ReportedError = EarliestError(LinesOf(input))

\* C15 witness: the first rover's commands and the second rover's position
\* are both invalid, and the run has reported the commands.
ReportedCommandsBeforeNextPosition ==
    /\ Failed("Invalid commands \"${line}\": must only contain L, R, or M")
    /\ Len(LinesOf(input)) = 5
    /\ ~LineOutcome(LinesOf(input), 4, ParsePlateau(LinesOf(input)[1]).value).ok

\* C16: a run gets from parseInput either a ParsedInput with a plateau and
\* one rover for every pair of lines after the first, or an error and with it
\* neither a plateau nor a rover; after an error nothing is reported.
NoPartialResult ==
    HasRun =>
        \/ /\ parsed.ok
           /\ DOMAIN parsed = {"ok", "value"}
           /\ DOMAIN parsed.value = {"plateau", "rovers"}
           /\ 2 * Len(parsed.value.rovers) + 1 = Len(LinesOf(input))
        \/ /\ ~parsed.ok
           /\ DOMAIN parsed = {"ok", "error"}
           /\ output = <<>>

\* C16 witness: the plateau and the first rover are valid, the second rover
\* is not, and the run has failed.
FailedOnSecondRover ==
    /\ HasRun
    /\ ~parsed.ok
    /\ Len(LinesOf(input)) = 5
    /\ ParseInput(Join(SubSeq(LinesOf(input), 1, 3), "\n"), 0).outcome.ok

\* The number of fields of a line: its maximal runs of characters that are
\* not whitespace.
FieldCount(line) ==
    Cardinality({k \in 1..Len(line) :
                    ~IsWhitespace(line[k]) /\ (k = 1 \/ IsWhitespace(line[k - 1]))})

\* The lines pass the structural checks: a plateau line and rover pairs.
WellShaped(lines) == Len(lines) >= 3 /\ (Len(lines) - 1) % 2 = 0

\* The parser gets as far as line j: the lines are well shaped, the plateau
\* line is valid and so is every rover line before line j.
Reaches(lines, j) ==
    /\ WellShaped(lines)
    /\ ParsePlateau(lines[1]).ok
    /\ \A h \in 2..(j - 1) : LineOutcome(lines, h, ParsePlateau(lines[1]).value).ok

\* The position lines that the parser gets to.
ReachedPositions(lines) == {j \in 2..Len(lines) : j % 2 = 0 /\ Reaches(lines, j)}

\* The last run failed with this message template about this line.
FailedOn(template, line) == Failed(template) /\ parsed.error[2] = line

FieldCountsOf(lines) ==
    /\ WellShaped(lines) =>
          (FieldCount(lines[1]) # 2
              <=> FailedOn("Invalid plateau line: expected \"maxX maxY\", got \"${line}\"",
                           lines[1]))
    /\ \A j \in ReachedPositions(lines) :
          FieldCount(lines[j]) # 3
              <=> FailedOn("Invalid position line: expected \"x y D\", got \"${line}\"",
                           lines[j])

\* C17: when the parser gets to the plateau line, the run fails with the
\* invalid-plateau-line error exactly when the line has not 2 fields, and
\* when it gets to a position line, with the invalid-position-line error
\* exactly when the line has not 3 fields; fields are separated by runs of
\* spaces and tabs.
FieldCountErrors == HasRun => FieldCountsOf(LinesOf(input))

\* C17 witness: a run has failed on a position line of four fields.
FailedOnFourFields ==
    /\ Failed("Invalid position line: expected \"x y D\", got \"${line}\"")
    /\ FieldCount(parsed.error[2]) = 4

\* A line of exactly n fields, each the text of an integer.
IntegerFields(line, n) ==
    /\ FieldCount(line) = n
    /\ \A k \in 1..n : Number(SplitWhitespace(line)[k]).kind = "integer"

\* The value of the k-th field of a line of integer fields.
FieldValue(line, k) == Number(SplitWhitespace(line)[k]).value

\* The last run did not fail on the plateau line, and a ParsedInput it got
\* holds this plateau.
PlateauAccepted(maxX, maxY) ==
    /\ parsed.ok => parsed.value.plateau = [maxX |-> maxX, maxY |-> maxY]
    /\ ~parsed.ok =>
          /\ parsed.error[1] # "Plateau coordinates must be non-negative"
          /\ parsed.error[1] # "Invalid plateau line: expected \"maxX maxY\", got \"${line}\""
          /\ parsed.error[1] = "Invalid ${fieldName}: \"${value}\" is not a valid integer"
                => parsed.error[2] \notin {<<"plateau maxX">>, <<"plateau maxY">>}

PlateauSignOf(maxX, maxY) ==
    IF maxX >= 0 /\ maxY >= 0
    THEN PlateauAccepted(maxX, maxY)
    ELSE Failed("Plateau coordinates must be non-negative")

\* C18: when the parser gets to a plateau line of two integers, the plateau
\* is accepted if both are >= 0, 0 0 included, and the run fails with the
\* must-be-non-negative error if either is negative.
PlateauSignRule ==
    (HasRun /\ WellShaped(LinesOf(input)) /\ IntegerFields(LinesOf(input)[1], 2))
        => PlateauSignOf(FieldValue(LinesOf(input)[1], 1), FieldValue(LinesOf(input)[1], 2))

\* C18 witness: a run has succeeded on the plateau of the single cell.
ParsedSingleCellPlateau ==
    /\ Parsed
    /\ parsed.value.plateau = [maxX |-> 0, maxY |-> 0]

\* A run has failed on a plateau line whose maxY alone is negative.
FailedOnNegativeMaxY ==
    /\ Failed("Plateau coordinates must be non-negative")
    /\ FieldValue(LinesOf(input)[1], 1) >= 0

\* A syntactically valid position line: two integers and a direction letter
\* of either case.
ValidPositionSyntax(line) ==
    /\ FieldCount(line) = 3
    /\ Number(SplitWhitespace(line)[1]).kind = "integer"
    /\ Number(SplitWhitespace(line)[2]).kind = "integer"
    /\ SplitWhitespace(line)[3] \in
          {<<"N">>, <<"E">>, <<"S">>, <<"W">>, <<"n">>, <<"e">>, <<"s">>, <<"w">>}

\* The last run failed with the out-of-bounds error for position (px, py) on
\* plateau p.
FailedOutside(px, py, p) ==
    /\ Failed("Starting position (${x}, ${y}) is outside plateau bounds (0-${plateau.maxX}, 0-${plateau.maxY})")
    /\ parsed.error[2] = NumberToString(px)
    /\ parsed.error[3] = NumberToString(py)
    /\ parsed.error[4] = NumberToString(p.maxX)
    /\ parsed.error[5] = NumberToString(p.maxY)

\* The start position of rover r of the input: inside p it is not what the
\* run failed on and is the start position a ParsedInput holds; outside p the
\* run failed on it.
StartBoundsOf(r, px, py, p) ==
    IF 0 <= px /\ px <= p.maxX /\ 0 <= py /\ py <= p.maxY
    THEN /\ ~FailedOutside(px, py, p)
         /\ parsed.ok => parsed.value.rovers[r].start.position = [x |-> px, y |-> py]
    ELSE FailedOutside(px, py, p)

StartBoundsOfLines(lines) ==
    \A j \in ReachedPositions(lines) :
        ValidPositionSyntax(lines[j])
            => StartBoundsOf(j \div 2, FieldValue(lines[j], 1), FieldValue(lines[j], 2),
                             ParsePlateau(lines[1]).value)

\* C19: when the parser gets to a syntactically valid position line, the
\* position is accepted if 0 <= x <= maxX and 0 <= y <= maxY of the parsed
\* plateau, the corner (maxX, maxY) included, and otherwise, a negative x or
\* y included, the run fails with the outside-plateau-bounds error.
StartPositionBounds == HasRun => StartBoundsOfLines(LinesOf(input))

\* C19 witness: a run has succeeded with a rover starting on the corner
\* (maxX, maxY) of a plateau of more than one cell.
ParsedStartOnCorner ==
    /\ Parsed
    /\ parsed.value.plateau.maxX > 0
    /\ parsed.value.rovers[1].start.position =
          [x |-> parsed.value.plateau.maxX, y |-> parsed.value.plateau.maxY]

\* A run has failed on a start position with a negative y.
FailedOnNegativeY ==
    /\ Failed("Starting position (${x}, ${y}) is outside plateau bounds (0-${plateau.maxX}, 0-${plateau.maxY})")
    /\ parsed.error[3] = <<"-", "1">>

\* The direction each letter stands for, in either case.
DirectionOfLetter ==
    [N |-> "N", E |-> "E", S |-> "S", W |-> "W", n |-> "N", e |-> "E", s |-> "S", w |-> "W"]

IsDirectionLetter(token) == Len(token) = 1 /\ token[1] \in DOMAIN DirectionOfLetter

\* The direction token of rover r of the input: a direction letter of either
\* case is not what the run failed on, as typed or in upper case, and is, in
\* upper case, the direction of the start state a ParsedInput holds; on any
\* other token the run failed.
DirectionTokenOf(r, token) ==
    IF IsDirectionLetter(token)
    THEN /\ ~FailedOn("Invalid direction \"${direction}\": must be one of N, E, S, W",
                       token)
         /\ ~FailedOn("Invalid direction \"${direction}\": must be one of N, E, S, W",
                       <<DirectionOfLetter[token[1]]>>)
         /\ parsed.ok => parsed.value.rovers[r].start.direction = DirectionOfLetter[token[1]]
    ELSE Failed("Invalid direction \"${direction}\": must be one of N, E, S, W")

DirectionsOfLines(lines) ==
    \A j \in ReachedPositions(lines) :
        (FieldCount(lines[j]) = 3
            /\ Number(SplitWhitespace(lines[j])[1]).kind = "integer"
            /\ Number(SplitWhitespace(lines[j])[2]).kind = "integer")
            => DirectionTokenOf(j \div 2, SplitWhitespace(lines[j])[3])

\* C20: when the parser gets to a position line of two integers and a third
\* field, a third field that is one of N, E, S, W in either case is accepted
\* and stored in upper case in the start state, and on any other third field
\* the run fails with the invalid-direction error.
DirectionLetterRule == HasRun => DirectionsOfLines(LinesOf(input))

\* C20 witness: a run has succeeded on a position line that ends in a lower
\* case e, with East as the direction of its start state.
ParsedLowerCaseDirection ==
    /\ Parsed
    /\ LinesOf(input)[2][Len(LinesOf(input)[2])] = "e"
    /\ parsed.value.rovers[1].start.direction = "E"

\* A run has failed on a direction token of two letters.
FailedOnTwoLetters ==
    /\ Failed("Invalid direction \"${direction}\": must be one of N, E, S, W")
    /\ parsed.error[2] = <<"N", "E">>

\* The commands lines that the parser gets to.
ReachedCommands(lines) == {j \in 2..Len(lines) : j % 2 = 1 /\ Reaches(lines, j)}

\* The command each letter stands for, in either case.
CommandOfLetter ==
    [L |-> "L", R |-> "R", M |-> "M", l |-> "L", r |-> "R", m |-> "M"]

\* A non-empty line of command letters of either case.
IsCommandLetters(line) ==
    line # <<>> /\ \A k \in 1..Len(line) : line[k] \in DOMAIN CommandOfLetter

\* The commands line of rover r of the input: a non-empty line of L, R, M in
\* either case is not what the run failed on and is, letter by letter in
\* upper case, the commands of the rover a ParsedInput holds; on any other
\* line the run failed with the invalid-commands error about that line.
CommandsLineOf(r, line) ==
    IF IsCommandLetters(line)
    THEN /\ ~FailedOn("Invalid commands \"${line}\": must only contain L, R, or M", line)
         /\ parsed.ok => parsed.value.rovers[r].commands
                            = [k \in 1..Len(line) |-> CommandOfLetter[line[k]]]
    ELSE FailedOn("Invalid commands \"${line}\": must only contain L, R, or M", line)

CommandsOfLines(lines) ==
    \A j \in ReachedCommands(lines) : CommandsLineOf((j - 1) \div 2, lines[j])

\* C21: when the parser gets to a commands line, the line is accepted exactly
\* when it is a non-empty string of L, R, M in either case, and the parsed
\* commands are that string in upper case; a line with any other character
\* (a digit, another letter, whitespace inside) fails with the
\* invalid-commands error.
CommandsLineRule == HasRun => CommandsOfLines(LinesOf(input))

\* C21 witness: a run has failed on a commands line of two commands with a
\* space between them.
FailedOnSpaceBetweenCommands ==
    /\ Failed("Invalid commands \"${line}\": must only contain L, R, or M")
    /\ Len(parsed.error[2]) = 3
    /\ parsed.error[2][1] \in {"L", "R", "M"}
    /\ parsed.error[2][2] = " "
    /\ parsed.error[2][3] \in {"L", "R", "M"}

\* A run has succeeded on a commands line with a lower case letter.
ParsedLowerCaseCommand ==
    /\ Parsed
    /\ \E k \in 1..Len(LinesOf(input)[3]) : LinesOf(input)[3][k] = "r"
    /\ \E k \in 1..Len(parsed.value.rovers[1].commands) :
          parsed.value.rovers[1].commands[k] = "R"

\* The text as typed is a valid plateau line, a valid position line and a
\* commands line that is empty or whitespace only, then `more` further lines.
BlankCommandsLine(typed, more) ==
    /\ Len(typed) = 3 + more
    /\ ParsePlateau(Trim(typed[1])).ok
    /\ ParsePosition(Trim(typed[2]), ParsePlateau(Trim(typed[1])).value).ok
    /\ NoContent(typed[3])

\* C22 as claimed: a run on a valid plateau line, a valid position line and
\* an empty or whitespace-only commands line fails with the invalid-commands
\* error.
BlankCommandsLineFailsPattern ==
    (HasRun /\ BlankCommandsLine(SplitLines(input), 0))
        => Failed("Invalid commands \"${line}\": must only contain L, R, or M")

\* C22 amended: an empty or whitespace-only commands line is dropped with the
\* blank lines before the lines are counted and never reaches the pattern
\* check. A run on a valid plateau line, a valid position line and such a
\* commands line fails with the minimum-shape error; when the lines of a
\* second rover follow, it fails with the pairing error.
BlankCommandsLineIsDropped ==
    HasRun =>
        /\ BlankCommandsLine(SplitLines(input), 0)
              => Failed("Input must contain at least plateau line + one rover (position + commands)")
        /\ (BlankCommandsLine(SplitLines(input), 2)
              /\ ~NoContent(SplitLines(input)[4]) /\ ~NoContent(SplitLines(input)[5]))
              => Failed("Invalid input format: each rover must have exactly 2 lines (position + commands)")

\* C22 witness: a run on a plateau line, a position line and a commands line
\* of whitespace has failed with the minimum-shape error.
RanOnWhitespaceCommandsLine ==
    /\ BlankCommandsLine(SplitLines(input), 0)
    /\ SplitLines(input)[3] # <<>>
    /\ Failed("Input must contain at least plateau line + one rover (position + commands)")

\* The rover that a position line and a commands line describe, read field
\* by field and letter by letter.
RoverOfPair(positionLine, commandsLine) ==
    [start |-> [position |-> [x |-> FieldValue(positionLine, 1),
                              y |-> FieldValue(positionLine, 2)],
                direction |-> DirectionOfLetter[SplitWhitespace(positionLine)[3][1]]],
     commands |-> [k \in 1..Len(commandsLine) |-> CommandOfLetter[commandsLine[k]]]]

RoversInLineOrder(lines, parsedRovers) ==
    /\ 2 * Len(parsedRovers) = Len(lines) - 1
    /\ \A r \in 1..Len(parsedRovers) :
          parsedRovers[r] = RoverOfPair(lines[2 * r], lines[2 * r + 1])

\* C23: the ParsedInput of a valid input of n non-blank lines holds exactly
\* (n - 1) / 2 rovers, and its rover r is the one that line 2r (position)
\* and line 2r + 1 (commands) describe.
ParserPreservesOrder == Parsed => RoversInLineOrder(LinesOf(input), parsed.value.rovers)

\* C23 witness: a run has parsed two rovers that differ in start state.
ParsedTwoDistinctRovers ==
    /\ Parsed
    /\ Len(parsed.value.rovers) = 2
    /\ parsed.value.rovers[1].start # parsed.value.rovers[2].start

\* Two outcomes of parseInput are the same ParsedInput or errors of the same
\* kind, the same message up to the line or value it quotes.
SameOutcome(a, b) ==
    /\ a.ok = b.ok
    /\ a.ok => a.value = b.value
    /\ ~a.ok => a.error[1] = b.error[1]

\* C24: the outcome of the last run is the outcome of parseInput on the text
\* in the box, whatever blank lines were put in since, whatever spaces and
\* tabs were put around a line, and whatever separator was replaced by a run
\* of spaces and tabs.
WhitespaceInsensitive ==
    HasRun => SameOutcome(parsed, ParseInput(input, lastIndex).outcome)

\* C24 witness: a text that parsed has been edited since its only run.
EditedParsedText ==
    /\ runs = 1
    /\ edits = 1
    /\ parsed.ok
    /\ \E k \in 1..Len(input) : input[k] = "\t"

\* A text that failed on its plateau line has been edited since its only run.
EditedFailedText ==
    /\ runs = 1
    /\ edits = 1
    /\ Failed("Plateau coordinates must be non-negative")

\* Text that is no integer: text with a letter, the fraction 1.5, NaN,
\* Infinity.
NotInteger(field) ==
    field \in {<<"1", "x">>, <<"1", ".", "5">>, <<"N", "a", "N">>,
               <<"I", "n", "f", "i", "n", "i", "t", "y">>}

\* The last run failed with the not-a-valid-integer error about this field.
FailedInteger(fieldName, field) ==
    /\ Failed("Invalid ${fieldName}: \"${value}\" is not a valid integer")
    /\ parsed.error[2] = fieldName
    /\ parsed.error[3] = field

\* The two numeric fields of a line the parser gets to, when the line has
\* the count of fields it needs: the first that is no integer fails the run.
NumericFieldsOf(fields, firstName, secondName) ==
    /\ NotInteger(fields[1]) => FailedInteger(firstName, fields[1])
    /\ (~NotInteger(fields[1]) /\ NotInteger(fields[2]))
          => FailedInteger(secondName, fields[2])

\* No numeric field of the line is text that is no integer.
IntegersOnly(fields) == ~NotInteger(fields[1]) /\ ~NotInteger(fields[2])

IntegerRuleOf(lines) ==
    /\ (WellShaped(lines) /\ FieldCount(lines[1]) = 2)
          => NumericFieldsOf(SplitWhitespace(lines[1]), <<"plateau maxX">>, <<"plateau maxY">>)
    /\ \A j \in ReachedPositions(lines) :
          FieldCount(lines[j]) = 3
              => NumericFieldsOf(SplitWhitespace(lines[j]), <<"x coordinate">>, <<"y coordinate">>)
    /\ parsed.ok =>
          /\ IntegersOnly(SplitWhitespace(lines[1]))
          /\ \A j \in 2..Len(lines) : j % 2 = 0 => IntegersOnly(SplitWhitespace(lines[j]))

\* C25: when the parser gets to a plateau line of two fields or a position
\* line of three, a numeric field (maxX, maxY, x, y) that is non-numeric
\* text, a fraction, NaN or Infinity fails the run with the
\* not-a-valid-integer error naming the field and quoting it, and no input
\* with such a field yields a ParsedInput.
IntegerRule == HasRun => IntegerRuleOf(LinesOf(input))

\* C25 witness: a run has failed on a y coordinate of Infinity.
FailedOnInfiniteY ==
    FailedInteger(<<"y coordinate">>, <<"I", "n", "f", "i", "n", "i", "t", "y">>)

\* A run has failed on a plateau maxY of 1.5.
FailedOnFractionalMaxY == FailedInteger(<<"plateau maxY">>, <<"1", ".", "5">>)

\* ------------------------------------------------------- properties: formatter

\* The decimal digits of the coordinates that are formatted.
Decimal == (0 :> <<"0">>) @@ (12 :> <<"1", "2">>)

\* The line 'x y D' of a state.
LineOfState(state) ==
    Decimal[state.position.x] \o <<" ">> \o Decimal[state.position.y]
        \o <<" ", state.direction>>

\* The number of newline characters of a text.
Newlines(text) == Cardinality({k \in 1..Len(text) : text[k] = "\n"})

Formatted(states, text) ==
    IF states = <<>> THEN text = <<>>
    ELSE /\ Newlines(text) = Len(states) - 1
         /\ text[Len(text)] # "\n"
         /\ Len(SplitLines(text)) = Len(states)
         /\ \A k \in 1..Len(states) : SplitLines(text)[k] = LineOfState(states[k])

\* C26: the formatted output of a list of states has one line per state, the
\* k-th being 'x y D' of the k-th state with single spaces, the lines joined
\* by single newlines with none after the last; for the empty list it is the
\* empty string.
OutputFormat == HasRun => Formatted(result, output)

\* C26 witness: two different states have been formatted.
FormattedTwoStates ==
    /\ HasRun
    /\ Len(result) = 2
    /\ result[1] # result[2]
    /\ Newlines(output) = 1

\* The empty list has been formatted.
FormattedNoStates == HasRun /\ result = <<>> /\ output = <<>>

\* ------------------------------------------------------- properties: scenarios

\* C27: a run on the sample text (plateau 5 5, rover 1 2 N with LMLMLMLMM,
\* rover 3 3 E with MMRMMRMRRM) parses two rovers, reports no error and
\* shows exactly the lines '1 3 N' and '5 1 E'.
ScenarioA ==
    (HasRun /\ input = SAMPLE_INPUT) =>
        /\ error = <<>>
        /\ Parsed
        /\ Len(parsed.value.rovers) = 2
        /\ output = <<"1", " ", "3", " ", "N", "\n", "5", " ", "1", " ", "E">>

\* C27 witness: the sample text has been run and two lines are shown.
RanOnSampleInput ==
    /\ HasRun
    /\ input = SAMPLE_INPUT
    /\ Len(SplitLines(output)) = 2

\* The state after the first n commands of r.
After(r, n) == ExecuteCommands(start(r), Prefix(r, n), plateau)

\* The k-th command of r is a move that is rejected.
RejectedAt(r, k) ==
    /\ commands(r)[k] = "M"
    /\ After(r, k).position = After(r, k - 1).position

\* The number of rejected moves among the commands from..to of r.
RejectedOn(r, from, to) == Cardinality({k \in from..to : RejectedAt(r, k)})

\* r runs MMMRMMM from (0,0,N) on plateau (2,2): commands 1..3 are the
\* northward leg, commands 5..7 the eastward leg.
IsScenarioB(r) ==
    /\ plateau = [maxX |-> 2, maxY |-> 2]
    /\ start(r) = RoverState(0, 0, "N")
    /\ commands(r) = <<"M", "M", "M", "R", "M", "M", "M">>

\* The locals of r are the state after the commands consumed so far.
FollowsCommands(r) ==
    Running(r) => RoverState(x[r], y[r], Heading(r)) = After(r, i[r])

\* C28 as stated: scenario B ends at (2,2,E) with two moves rejected on the
\* northward leg and two on the eastward leg.
ScenarioBTwoRejectedPerLeg ==
    \A r \in Rovers :
        (IsScenarioB(r) /\ pc[r] = "done") =>
            /\ result[r] = RoverState(2, 2, "E")
            /\ RejectedOn(r, 1, 3) = 2
            /\ RejectedOn(r, 5, 7) = 2

\* C28 (amended): scenario B ends at (2,2,E) with one move rejected on each
\* leg, the third of the leg: two moves of the northward leg take the rover
\* to (0,2) and two of the eastward leg to (2,2).
ScenarioBOneRejectedPerLeg ==
    \A r \in Rovers :
        IsScenarioB(r) =>
            /\ FollowsCommands(r)
            /\ pc[r] = "done" =>
                /\ result[r] = RoverState(2, 2, "E")
                /\ {k \in 1..7 : RejectedAt(r, k)} = {3, 7}
                /\ RejectedOn(r, 1, 3) = 1
                /\ RejectedOn(r, 5, 7) = 1

\* C28 witness: scenario B has returned.
ScenarioBReturned ==
    \E r \in Rovers : IsScenarioB(r) /\ pc[r] = "done" /\ i[r] = 7

SingleCell == plateau = [maxX |-> 0, maxY |-> 0]

OnlyMoves(r) == \A k \in 1..Len(commands(r)) : commands(r)[k] = "M"

\* C29: on the plateau (0,0) the rover stays on (0,0) after every command
\* and in the returned state, whatever the commands; with nothing but moves
\* the returned state is the start state.
SingleCellPlateau ==
    \A r \in Rovers :
        SingleCell =>
            /\ start(r).position = [x |-> 0, y |-> 0]
            /\ Running(r) => x[r] = 0 /\ y[r] = 0
            /\ pc[r] = "done" => result[r].position = [x |-> 0, y |-> 0]
            /\ (pc[r] = "done" /\ OnlyMoves(r)) => result[r] = start(r)

\* C29 witness: MMMM from (0,0,N) on the plateau (0,0) has returned (0,0,N).
SingleCellFourMoves ==
    \E r \in Rovers :
        /\ SingleCell
        /\ start(r) = RoverState(0, 0, "N")
        /\ commands(r) = <<"M", "M", "M", "M">>
        /\ pc[r] = "done"
        /\ result[r] = RoverState(0, 0, "N")

\* On the plateau (0,0) a rover has turned between rejected moves and
\* returned with another heading.
SingleCellTurned ==
    \E r \in Rovers :
        /\ SingleCell
        /\ commands(r) = <<"M", "R", "M">>
        /\ pc[r] = "done"
        /\ result[r].direction # start(r).direction

\* ------------------------------------------------------- properties: frame

\* r returns in this step.
Returns(r) == pc[r] # "done" /\ pc'[r] = "done"

\* C30: no step of an invocation changes the start state of any rover, the
\* commands or the plateau; the state an invocation returns is the one its
\* unchanged start state and commands determine, so an invocation on the same
\* start state and commands as one that has returned returns the same state.
InputsNotMutated ==
    [][/\ rovers' = rovers
       /\ plateau' = plateau
       /\ \A r \in Rovers :
             Returns(r) =>
                /\ result'[r] = ExecuteCommands(start(r), commands(r), plateau)
                /\ \A q \in Rovers :
                      (pc'[q] = "done" /\ rovers[q] = rovers[r])
                          => result'[q] = result'[r]]_vars

\* C30 witness: two invocations on the same start state and commands have
\* both returned the same state, which is not the start state.
ExecutedSameStartTwice ==
    \E r, q \in Rovers :
        /\ r # q
        /\ rovers[r] = rovers[q]
        /\ pc[r] = "done" /\ pc[q] = "done"
        /\ result[r] = result[q]
        /\ result[r].position # start(r).position
        /\ result[r].direction # start(r).direction

\* ------------------------------------------------------- properties: order of checks

\* The first check a plateau line of these fields fails.
PlateauCheck(fields) ==
    IF Len(fields) # 2 THEN "plateau fields"
    ELSE IF fields[1] = <<"1", "x">> THEN "maxX integer"
    ELSE IF fields[2] = <<"1", "x">> THEN "maxY integer"
    ELSE IF <<"-", "1">> \in {fields[1], fields[2]} THEN "non-negative"
    ELSE "none"

\* The first check a position line of these fields fails on the plateau 1 1.
PositionCheck(fields) ==
    IF Len(fields) # 3 THEN "position fields"
    ELSE IF fields[1] = <<"1", "x">> THEN "x integer"
    ELSE IF fields[2] = <<"1", "x">> THEN "y integer"
    ELSE IF fields[3] # <<"N">> THEN "direction"
    ELSE IF <<"2">> \in {fields[1], fields[2]} THEN "bounds"
    ELSE "none"

\* The first check the plateau line and then the position line fail.
FirstCheck(lines) ==
    IF PlateauCheck(SplitWhitespace(lines[1])) # "none"
    THEN PlateauCheck(SplitWhitespace(lines[1]))
    ELSE PositionCheck(SplitWhitespace(lines[2]))

\* The check the error of the last run is about.
IntegerCheckOf(fieldName) ==
    IF fieldName = <<"plateau maxX">> THEN "maxX integer"
    ELSE IF fieldName = <<"plateau maxY">> THEN "maxY integer"
    ELSE IF fieldName = <<"x coordinate">> THEN "x integer"
    ELSE IF fieldName = <<"y coordinate">> THEN "y integer"
    ELSE "other"

ReportedCheck ==
    IF parsed.ok THEN "none"
    ELSE IF parsed.error[1] = "Invalid plateau line: expected \"maxX maxY\", got \"${line}\""
    THEN "plateau fields"
    ELSE IF parsed.error[1] = "Invalid ${fieldName}: \"${value}\" is not a valid integer"
    THEN IntegerCheckOf(parsed.error[2])
    ELSE IF parsed.error[1] = "Plateau coordinates must be non-negative"
    THEN "non-negative"
    ELSE IF parsed.error[1] = "Invalid position line: expected \"x y D\", got \"${line}\""
    THEN "position fields"
    ELSE IF parsed.error[1] = "Invalid direction \"${direction}\": must be one of N, E, S, W"
    THEN "direction"
    ELSE IF parsed.error[1] = "Starting position (${x}, ${y}) is outside plateau bounds (0-${plateau.maxX}, 0-${plateau.maxY})"
    THEN "bounds"
    ELSE "other"

\* C31: the error of a run is that of the first check its line fails: for
\* the plateau line the count of fields, maxX an integer, maxY an integer,
\* both non-negative; for the position line the count of fields, x an
\* integer, y an integer, the direction letter, the plateau bounds.
ValidationOrder == HasRun => ReportedCheck = FirstCheck(LinesOf(input))

\* C31 witness: a position outside the plateau with a letter that is no
\* direction has been reported as an invalid direction.
FailedOnDirectionOutside ==
    /\ Failed("Invalid direction \"${direction}\": must be one of N, E, S, W")
    /\ SplitWhitespace(LinesOf(input)[2]) = <<<<"2">>, <<"2">>, <<"Q">>>>

\* A negative maxX beside a maxY that is no integer has been reported as no
\* valid integer.
FailedOnIntegerBesideNegative ==
    /\ Failed("Invalid ${fieldName}: \"${value}\" is not a valid integer")
    /\ SplitWhitespace(LinesOf(input)[1]) = <<<<"-", "1">>, <<"1", "x">>>>

\* ------------------------------------------------------- properties: engine, composed

\* The number of cells between (px, py) and the edge of the plateau in
\* direction d.
CellsToEdge(px, py, d) ==
    IF d = "N" THEN plateau.maxY - py
    ELSE IF d = "E" THEN plateau.maxX - px
    ELSE IF d = "S" THEN py
    ELSE px

Min(a, b) == IF a <= b THEN a ELSE b

\* The state n moves from the start state of r lead to: min(n, k) cells
\* ahead, the heading kept.
Saturated(r, n) ==
    LET d == start(r).direction
        cells == Min(n, CellsToEdge(start(r).position.x, start(r).position.y, d))
    IN  RoverState(start(r).position.x + cells * Displacement[d][1],
                   start(r).position.y + cells * Displacement[d][2], d)

\* C32: with nothing but M commands the rover is, after n of them and in
\* the returned state, min(n, k) cells ahead of its start in its heading,
\* k being the cells between the start and the edge, and its heading is
\* the start heading.
SaturationAtWall ==
    \A r \in Rovers :
        OnlyMoves(r) =>
            /\ Running(r) => RoverState(x[r], y[r], Heading(r)) = Saturated(r, i[r])
            /\ pc[r] = "done" => result[r] = Saturated(r, Len(commands(r)))

\* C32 witness: four moves north from (0,0) on a plateau of maxY = 2 have
\* returned (0,2,N).
SaturatedNorth ==
    \E r \in Rovers :
        /\ plateau.maxY = 2
        /\ start(r) = RoverState(0, 0, "N")
        /\ commands(r) = <<"M", "M", "M", "M">>
        /\ pc[r] = "done"
        /\ result[r] = RoverState(0, 2, "N")

\* One move towards an edge two cells away has returned short of the edge.
StoppedShortOfWall ==
    \E r \in Rovers :
        /\ plateau.maxX = 2
        /\ start(r) = RoverState(2, 0, "W")
        /\ commands(r) = <<"M">>
        /\ pc[r] = "done"
        /\ result[r] = RoverState(1, 0, "W")

\* ------------------------------------------------------- properties: end to end

\* (px, py) lies within the plateau p.
Within(px, py, p) == 0 <= px /\ px <= p.maxX /\ 0 <= py /\ py <= p.maxY

\* The k-th line of the output shows a position within the plateau p.
ShownWithin(k, p) ==
    /\ k <= Len(SplitLines(output))
    /\ FieldCount(SplitLines(output)[k]) = 3
    /\ IntegerFields(SubSeq(SplitLines(output)[k], 1, Len(SplitLines(output)[k]) - 2), 2)
    /\ Within(FieldValue(SplitLines(output)[k], 1), FieldValue(SplitLines(output)[k], 2), p)

\* C33: when parseInput accepts the text, the start state of every parsed
\* rover lies within the parsed plateau, and so does the final state shown
\* for it.
EndToEndContainment ==
    Parsed =>
        \A k \in 1..Len(parsed.value.rovers) :
            /\ Within(parsed.value.rovers[k].start.position.x,
                      parsed.value.rovers[k].start.position.y, parsed.value.plateau)
            /\ ShownWithin(k, parsed.value.plateau)

\* C33 witness: a rover parsed on the edge of the plateau and facing out of
\* it, whose first command is a move, is shown on the plateau.
ShownRoverFromEdge ==
    /\ Parsed
    /\ \E k \in 1..Len(parsed.value.rovers) :
          /\ parsed.value.rovers[k].start = RoverState(0, parsed.value.plateau.maxY, "N")
          /\ parsed.value.rovers[k].commands[1] = "M"
          /\ ShownWithin(k, parsed.value.plateau)
          /\ FieldValue(SplitLines(output)[k], 1) = 1

\* The commands of r after the first n.
Suffix(r, n) == SubSeq(commands(r), n + 1, Len(commands(r)))

\* Executing the first n commands of r and then, from the state returned,
\* the others.
InTwoCalls(r, n) ==
    ExecuteCommands(ExecuteCommands(start(r), Prefix(r, n), plateau), Suffix(r, n), plateau)

\* C34: executing a + b from s gives the state that executing b from the
\* state returned for a gives, for every split of the commands into a and
\* b, characters that are no commands among them; at every point of
\* the loop the state returned is the one the commands still to come give
\* from the current position and direction; and the state the loop returns
\* is the one the two calls give.
SequentialComposition ==
    \A r \in Rovers :
        /\ pc[r] = "call" =>
              \A n \in 0..Len(commands(r)) :
                  InTwoCalls(r, n) = ExecuteCommands(start(r), commands(r), plateau)
        /\ pc[r] = "loop" =>
              ExecuteCommands(RoverState(x[r], y[r], Heading(r)), Suffix(r, i[r]), plateau)
                  = ExecuteCommands(start(r), commands(r), plateau)
        /\ pc[r] = "done" =>
              \A n \in 0..Len(commands(r)) : result[r] = InTwoCalls(r, n)

\* C34 witness: an invocation has returned whose commands split into two
\* parts, the state between them being neither the start nor the result.
ReturnedThroughMiddleState ==
    \E r \in Rovers :
        /\ pc[r] = "done"
        /\ Len(commands(r)) = 3
        /\ After(r, 2) \notin {start(r), result[r]}
        /\ result[r] = InTwoCalls(r, 2)
        /\ result[r].position # start(r).position
        /\ result[r].direction # start(r).direction

\* The index of a direction and the direction of an index, N=0, E=1, S=2,
\* W=3.
IndexOfDirection == [N |-> 0, E |-> 1, S |-> 2, W |-> 3]
DirectionOfIndex == <<"N", "E", "S", "W">>

\* The number of commands c among the first n of r.
Count(r, c, n) == Cardinality({k \in 1..n : commands(r)[k] = c})

\* The direction of index (start + #R - #L) mod 4 over the first n commands
\* of r; 3 * #L is -#L modulo 4.
HeadingByTurns(r, n) ==
    DirectionOfIndex[((IndexOfDirection[start(r).direction] + Count(r, "R", n)
                        + 3 * Count(r, "L", n)) % 4) + 1]

\* C35: after any number of commands, and in the returned state, the
\* direction is the one of index (start + #R - #L) mod 4, whatever the
\* plateau, the position and the M commands, rejected or not.
HeadingByTurnCounts ==
    \A r \in Rovers :
        /\ Running(r) => Heading(r) = HeadingByTurns(r, i[r])
        /\ pc[r] = "done" => result[r].direction = HeadingByTurns(r, Len(commands(r)))

\* C35 witness: an invocation whose first move was rejected and which turned
\* both ways has returned with another heading than it started with.
TurnedAfterRejectedMove ==
    \E r \in Rovers :
        /\ FirstMoveRejected(r)
        /\ Count(r, "L", Len(commands(r))) >= 1
        /\ Count(r, "R", Len(commands(r))) >= 1
        /\ pc[r] = "done"
        /\ result[r].direction # start(r).direction

\* r runs repetitions of the 34-command pattern from (0,0,N) on the plateau
\* (10000,10000).
RunsPattern(r) ==
    /\ plateau = [maxX |-> 10000, maxY |-> 10000]
    /\ start(r) = RoverState(0, 0, "N")
    /\ Len(commands(r)) % 34 = 0
    /\ \A k \in 1..Len(commands(r)) :
          commands(r)[k] =
              IF ((k - 1) % 34) + 1 \in {6, 23, 29} THEN "R"
              ELSE IF ((k - 1) % 34) + 1 \in {12, 18} THEN "L"
              ELSE "M"

\* C36: after every positive multiple of 4 repetitions of the pattern the
\* state is (0,6,N), in the loop and as returned; the state after 4
\* repetitions being the state after 8, it is the state after every later
\* multiple of 4, 3000 among them.
PatternIsPeriodic ==
    \A r \in Rovers :
        RunsPattern(r) =>
            /\ (pc[r] = "loop" /\ i[r] > 0 /\ i[r] % (4 * 34) = 0)
                  => RoverState(x[r], y[r], Heading(r)) = RoverState(0, 6, "N")
            /\ (pc[r] = "done" /\ Len(commands(r)) % (4 * 34) = 0)
                  => result[r] = RoverState(0, 6, "N")

\* C36 witness: eight repetitions have returned.
ReturnedFromEightRepetitions ==
    \E r \in Rovers :
        /\ RunsPattern(r)
        /\ Len(commands(r)) = 8 * 34
        /\ pc[r] = "done"
        /\ result[r] = RoverState(0, 6, "N")

\* Three repetitions have returned from the bottom edge, where moves south
\* were rejected.
ReturnedFromBottomEdge ==
    \E r \in Rovers :
        /\ RunsPattern(r)
        /\ Len(commands(r)) = 3 * 34
        /\ pc[r] = "done"
        /\ result[r] = RoverState(15, 0, "W")

\* ------------------------------------------------------- properties: engine, any arguments

IsCommand(c) == c \in {"L", "R", "M"}

\* The state the commands among the first n characters of r lead to.
AfterCommandsOf(r, n) ==
    ExecuteCommands(start(r), SelectSeq(Prefix(r, n), IsCommand), plateau)

\* C37: characters other than L, R and M, lower-case l, r and m among them,
\* are skipped: after any number of characters, and in the returned state,
\* position and direction are those the commands L, R, M among the
\* characters give, and nothing is thrown.
OtherCharactersSkipped ==
    \A r \in Rovers :
        /\ pc[r] # "threw"
        /\ Running(r) => RoverState(x[r], y[r], Heading(r)) = AfterCommandsOf(r, i[r])
        /\ pc[r] = "done" => result[r] = AfterCommandsOf(r, Len(commands(r)))

\* C37 witness: a move after a lower-case letter and another letter has
\* been executed.
MovedAfterSkippedCharacters ==
    \E r \in Rovers :
        /\ start(r) = RoverState(0, 0, "N")
        /\ commands(r) = <<"l", "X", "M">>
        /\ pc[r] = "done"
        /\ result[r] = RoverState(0, 1, "N")

\* A string of lower-case commands has returned the start state.
ReturnedFromLowerCase ==
    \E r \in Rovers :
        /\ commands(r) = <<"r", "m", "l">>
        /\ pc[r] = "done"
        /\ result[r] = start(r)

\* The position of r in the loop.
At(r) == <<x[r], y[r]>>

StartsOutside(r) == ~OnPlateau(<<start(r).position.x, start(r).position.y>>)

\* C38: from any start state, on the plateau or off it, a step of the loop
\* that changes the position goes one cell ahead onto the plateau; a rover
\* on the plateau stays on it; a rover off the plateau is on its start
\* position; and the returned position is the last position of the loop.
CommittedMovesLandInBounds ==
    [][\A r \in Rovers :
          /\ (pc[r] = "loop" /\ At(r)' # At(r)) =>
                /\ OnPlateau(At(r)')
                /\ At(r)' = Ahead(x[r], y[r], Heading(r))
          /\ (pc[r] = "loop" /\ OnPlateau(At(r))) => OnPlateau(At(r)')
          /\ (Running(r)' /\ ~OnPlateau(At(r)')) =>
                At(r)' = <<start(r).position.x, start(r).position.y>>
          /\ pc'[r] = "done" =>
                <<result'[r].position.x, result'[r].position.y>> = At(r)']_vars

\* C38 witness: a rover that started one cell off the plateau has stepped
\* onto it, moved on and returned from the plateau.
EnteredPlateau ==
    \E r \in Rovers :
        /\ start(r) = RoverState(-1, 0, "E")
        /\ commands(r) = <<"M", "M">>
        /\ pc[r] = "done"
        /\ result[r] = RoverState(1, 0, "E")

\* A rover that started two cells off the plateau has returned its start
\* position after four moves towards the plateau.
StayedOutside ==
    \E r \in Rovers :
        /\ start(r) = RoverState(-2, 0, "E")
        /\ commands(r) = <<"M", "M", "M", "M">>
        /\ pc[r] = "done"
        /\ result[r] = start(r)

\* ------------------------------------------------------- properties: page

\* This step is a run of handleRunSimulation.
RunStep == runs' = runs + 1

\* C39: the error message and the output are never both non-empty; a run
\* that fails leaves an error and no output, whatever the run before left; a
\* run that succeeds leaves an output and no error, whatever the run before
\* left; and a change of the text leaves both as they are.
RunStateMachine ==
    [][/\ ~(error' # <<>> /\ output' # <<>>)
       /\ (RunStep /\ ~parsed'.ok) => (output' = <<>> /\ error' # <<>>)
       /\ (RunStep /\ parsed'.ok) => (error' = <<>> /\ output' # <<>>)
       /\ ~RunStep => (output' = output /\ error' = error)]_vars

\* C39 witness: after a second run, on a text other than the sample text,
\* an error is shown and no output.
FailedOnSecondClick ==
    /\ runs = 2
    /\ ~parsed.ok
    /\ error # <<>>
    /\ output = <<>>
    /\ input # SAMPLE_INPUT

\* After a second run an output is shown and no error.
SucceededOnSecondClick ==
    /\ runs = 2
    /\ parsed.ok
    /\ error = <<>>
    /\ output # <<>>

\* Reachability: a counterexample to this formula is a failed run that
\* follows a run which left an output.
NoFailureAfterSuccess ==
    [][~(RunStep /\ output # <<>> /\ error' # <<>>)]_vars

\* Reachability: a counterexample to this formula is a successful run that
\* follows a run which left an error.
NoSuccessAfterFailure ==
    [][~(RunStep /\ error # <<>> /\ output' # <<>>)]_vars

====
